---- MODULE Spec2Model ----
(***************************************************************************)
(* Model of the schema-reconciliation and spreadsheet update engine of    *)
(* frmuv2: SearchPanel / AddManualEntry handlers and the two update       *)
(* cycles of services/excelService.ts (updateRowInMasterSheet and         *)
(* updateMasterSheet) against a File System Access handle.                *)
(*                                                                         *)
(* Strings are sequences of one-character strings, so that normalizeKey   *)
(* is computed character by character as the source does.  A JavaScript   *)
(* object (MerchantRecord) is an ordered mapping: a sequence of           *)
(* <<key, value>> pairs in insertion order.                               *)
(***************************************************************************)
EXTENDS Integers, Sequences, FiniteSets, TLC

\* ------------------------------------------------------------------ bounds
\* Total number of update cycles (Update or Append calls) started in a run.
MaxCycles == 2

\* Manual entries saved in one run.
MaxSaves == 1

\* Rows of a large table.
MaxRows == 12

\* Longest key handed to normalizeKey
MaxKeyLen == 3

\* Most digits of a numeral handed to parseExcelDate
MaxSerialLen == 5

\* The global cap of searchRecords (results.length >= 20).
ResultCap == 20

\* The cap of AddManualEntry.searchDatabases (matches.length > 10, slice(0, 10)).
ManualCap == 10

\* ----------------------------------------------------------------- strings
UpperChars == <<"A","B","C","D","E","F","G","H","I","J","K","L","M","N","O","P","Q","R","S","T","U","V","W","X","Y","Z">>
LowerChars == <<"a","b","c","d","e","f","g","h","i","j","k","l","m","n","o","p","q","r","s","t","u","v","w","x","y","z">>
DigitChars == {"0","1","2","3","4","5","6","7","8","9"}

Range(s) == {s[i] : i \in 1..Len(s)}

\* JavaScript null / undefined as a cell or field value (never a real string).
NULL == <<"<null>">>
\* The empty string ''.
EMPTY == <<>>

\* String.prototype.toLowerCase, per character: the map of the upper-case letters.
LowerOf == [c \in Range(UpperChars) |-> LowerChars[CHOOSE i \in 1..26 : UpperChars[i] = c]]

toLowerCase(c) == IF c \in DOMAIN LowerOf THEN LowerOf[c] ELSE c

\* String.prototype.toLowerCase of a whole string
toLowerCaseString(s) == [i \in 1..Len(s) |-> toLowerCase(s[i])]

\* The character class [a-z0-9].
AlnumChars == Range(LowerChars) \cup DigitChars

IsAlnum(c) == c \in AlnumChars

\* Characters outside ASCII are written by code point.  U+0130 (capital I
\* with dot above) lower-cases to 'i' followed by the combining dot U+0307,
\* and U+212A (the Kelvin sign) to 'k'; U+00C9 lower-cases to U+00E9.
LowerAscii(c) ==
  IF c = "U+0130" THEN "i" ELSE IF c = "U+212A" THEN "k" ELSE toLowerCase(c)

\* Mutant: the key is lower-cased and nothing is removed.
normalizeKeyNoStrip(key) ==
  IF key = NULL THEN EMPTY
  ELSE [i \in 1..Len(key) |-> LowerAscii(key[i])]

\* normalizeKey: String(key || '').toLowerCase().replace(/[^a-z0-9]/g, '').
\* Of what toLowerCase gives for a character, the replace keeps the part in
\* [a-z0-9] (LowerAscii), so the combining dot of U+0130 is dropped.
normalizeKey(key) ==
  IF key = NULL THEN EMPTY
  ELSE SelectSeq([i \in 1..Len(key) |-> LowerAscii(key[i])], IsAlnum)

\* String.prototype.includes: t occurs in s as a contiguous substring.
includes(s, t) ==
  \E i \in 0..(Len(s) - Len(t)) : \A j \in 1..Len(t) : s[i + j] = t[j]


\* ------------------------------------------------------ static alias tables
\* findMidColumn's candidates, in source order.
MidCandidates == <<
  <<"m","i","d">>,
  <<"m","e","r","c","h","a","n","t","i","d">>,
  <<"m","e","r","c","h","_","i","d">>,
  <<"i","d">>,
  <<"m","e","r","c","h","a","n","t","_","i","d">>,
  <<"m","e","r","c","h","a","n","t","_","m","i","d">>,
  <<"a","c","c","o","u","n","t","i","d">>,
  <<"a","c","c","o","u","n","t","_","i","d">>,
  <<"o","u","t","l","e","t","i","d">>,
  <<"o","u","t","l","e","t","_","i","d">>,
  <<"o","u","t","l","e","t","_","n","u","m","b","e","r">>,
  <<"c","a","r","d","_","a","c","c","e","p","t","o","r","_","i","d">>,
  <<"m","e","r","c","h","a","n","t","_","n","o">>,
  <<"m","i","d","_","n","o">>,
  <<"m","i","d","n","u","m","b","e","r">>,
  <<"p","a","r","t","y","i","d">>,
  <<"p","a","r","t","y","_","i","d">>,
  <<"o","r","g","m","i","d">>,
  <<"o","r","g","_","m","i","d">>,
  <<"a","c","c","o","u","n","t","n","u","m","b","e","r">>,
  <<"c","a","r","d","a","c","c","e","p","t","o","r">>,
  <<"m","e","r","c","h","n","u","m">>
  >>

\* findNameColumn's candidates, in source order.
NameCandidates == <<
  <<"m","e","r","c","h","a","n","t","n","a","m","e">>,
  <<"n","a","m","e">>,
  <<"m","e","r","c","h","a","n","t">>,
  <<"l","e","g","a","l","n","a","m","e">>,
  <<"d","b","a">>,
  <<"d","o","i","n","g","b","u","s","i","n","e","s","s","a","s">>,
  <<"m","n","a","m","e">>,
  <<"b","u","s","i","n","e","s","s","_","n","a","m","e">>,
  <<"m","e","r","c","h","a","n","t","_","l","e","g","a","l","_","n","a","m","e">>,
  <<"o","u","t","l","e","t","n","a","m","e">>
  >>

\* FIELD_MAPPINGS of excelService.ts: <<form key, aliases>> in object order.
FIELD_MAPPINGS == <<
  <<<<"M","e","r","c","h","a","n","t"," ","I","D">>,
    <<<<"m","i","d">>,
      <<"m","e","r","c","h","a","n","t","i","d">>,
      <<"o","r","g","m","i","d">>,
      <<"m","e","r","c","h","a","n","t","_","i","d">>>>>>,
  <<<<"M","e","r","c","h","a","n","t"," ","N","a","m","e">>,
    <<<<"m","e","r","c","h","a","n","t","n","a","m","e">>,
      <<"n","a","m","e">>,
      <<"m","e","r","c","h","a","n","t">>>>>>,
  <<<<"P","O","S","/","E","C","O","M">>,
    <<<<"p","o","s">>,
      <<"p","o","s","e","c","o","m">>,
      <<"t","y","p","e">>>>>>,
  <<<<"R","M"," ","N","a","m","e">>,
    <<<<"r","m">>,
      <<"r","m","n","a","m","e">>,
      <<"r","e","l","a","t","i","o","n","s","h","i","p","m","a","n","a","g","e","r">>>>>>,
  <<<<"C","h","a","n","n","e","l"," ","S","M","E","/","K","E","Y","/","G","O","V">>,
    <<<<"f","i","n","a","l","s","e","g">>,
      <<"f","i","n","a","l","_","s","e","g","m","e","n","t">>,
      <<"f","i","n","a","l","s","e","g","m","e","n","t">>,
      <<"s","e","g","m","e","n","t">>,
      <<"c","h","a","n","n","e","l">>,
      <<"s","e","g">>,
      <<"s","u","b","_","s","e","g","m","e","n","t">>>>>>,
  <<<<"C","u","r","r","e","n","t"," ","S","t","a","t","u","s">>,
    <<<<"s","t","a","t","u","s">>,
      <<"c","u","r","r","e","n","t","s","t","a","t","u","s">>>>>>,
  <<<<"D","a","t","e"," ","o","f"," ","H","o","l","d">>,
    <<<<"d","a","t","e","o","f","h","o","l","d">>,
      <<"h","o","l","d","d","a","t","e">>>>>>,
  <<<<"H","e","l","d"," ","B","y">>,
    <<<<"h","e","l","d","b","y">>,
      <<"h","e","l","d","_","b","y">>>>>>,
  <<<<"H","o","l","d"," ","A","m","o","u","n","t">>,
    <<<<"h","o","l","d","a","m","o","u","n","t">>,
      <<"a","m","o","u","n","t">>,
      <<"h","o","l","d","_","a","m","o","u","n","t">>,
      <<"a","m","t">>>>>>,
  <<<<"D","a","t","e"," ","O","f"," ","R","e","l","a","s","e">>,
    <<<<"r","e","l","e","a","s","e","d","a","t","e">>,
      <<"d","a","t","e","o","f","r","e","l","e","a","s","e">>,
      <<"d","a","t","e","r","e","l","e","a","s","e">>,
      <<"r","e","l","e","a","s","e","_","d","a","t","e">>,
      <<"r","e","l","e","a","s","e","d","_","d","a","t","e">>>>>>,
  <<<<"R","e","l","e","a","s","e","d"," ","B","y">>,
    <<<<"r","e","l","e","a","s","e","d","b","y">>,
      <<"r","e","l","e","a","s","e","d","_","b","y">>,
      <<"r","e","l","_","b","y">>>>>>,
  <<<<"R","e","l","e","a","s","e"," ","A","m","o","u","n","t">>,
    <<<<"r","e","l","e","a","s","e","a","m","o","u","n","t">>,
      <<"r","e","l","e","a","s","e","_","a","m","o","u","n","t">>>>>>,
  <<<<"R","e","a","s","o","n"," ","o","f"," ","h","o","l","d">>,
    <<<<"r","e","a","s","o","n">>,
      <<"h","o","l","d","r","e","a","s","o","n">>,
      <<"r","e","a","s","o","n","_","c","o","d","e">>>>>>,
  <<<<"F","M","U"," ","R","e","m","a","r","k","s">>,
    <<<<"r","e","m","a","r","k","s">>,
      <<"f","m","u","r","e","m","a","r","k","s">>,
      <<"c","o","m","m","e","n","t","s">>>>>>,
  <<<<"C","l","o","s","e","d"," ","D","a","t","e">>,
    <<<<"c","l","o","s","e","d","d","a","t","e">>,
      <<"d","a","t","e","c","l","o","s","e","d">>,
      <<"c","l","o","s","e","d","_","d","a","t","e">>>>>>,
  <<<<"A","g","i","n","g"," ","o","f"," ","H","o","l","d">>,
    <<<<"a","g","i","n","g","o","f","h","o","l","d">>,
      <<"a","g","i","n","g","_","h","o","l","d">>,
      <<"h","o","l","d","_","a","g","i","n","g">>,
      <<"a","g","i","n","g">>>>>>,
  <<<<"A","g","i","n","g"," ","b","e","t","w","e","e","n"," ","H","o","l","d"," ","&"," ","R","e","l","e","a","s","e">>,
    <<<<"a","g","i","n","g","d","u","r","a","t","i","o","n">>,
      <<"a","g","i","n","g","_","b","e","t","w","e","e","n">>,
      <<"d","u","r","a","t","i","o","n">>>>>>,
  <<<<"C","h","a","i","n"," ","I","D">>,
    <<<<"c","h","a","i","n","i","d">>,
      <<"c","h","a","i","n">>,
      <<"c","h","a","i","n","_","i","d">>>>>>,
  <<<<"G","r","o","u","p"," ","N","a","m","e">>,
    <<<<"g","r","o","u","p">>,
      <<"g","r","o","u","p","n","a","m","e">>,
      <<"g","r","o","u","p","_","n","a","m","e">>>>>>,
  <<<<"T","e","a","m"," ","L","e","a","d"," ","(","T","L",")">>,
    <<<<"t","l">>,
      <<"t","e","a","m","l","e","a","d">>,
      <<"t","e","a","m","_","l","e","a","d">>>>>>,
  <<<<"F","i","n","a","l"," ","S","e","g">>,
    <<<<"f","i","n","a","l","s","e","g">>,
      <<"f","i","n","a","l","_","s","e","g","m","e","n","t">>,
      <<"f","i","n","a","l","_","s","e","g">>,
      <<"c","h","a","n","n","e","l">>>>>>,
  <<<<"O","r","g"," ","+"," ","M","I","D">>,
    <<<<"o","r","g","m","i","d">>,
      <<"m","i","d">>,
      <<"o","r","g","_","m","i","d">>>>>>,
  <<<<"R","M">>,
    <<<<"r","m">>,
      <<"r","e","l","a","t","i","o","n","s","h","i","p","m","a","n","a","g","e","r">>,
      <<"r","e","l","a","t","i","o","n","s","h","i","p","_","m","a","n","a","g","e","r">>>>>>
  >>

\* ------------------------------------------- strings used by the inputs
sMID == <<"M","I","D">>
sMerchantID == <<"M","e","r","c","h","a","n","t"," ","I","D">>
sStatus == <<"S","t","a","t","u","s">>
sCurrentStatus == <<"C","u","r","r","e","n","t"," ","S","t","a","t","u","s">>
sHeld_By == <<"H","e","l","d","_","B","y">>
sHeldBy == <<"H","e","l","d"," ","B","y">>
sAddedBy == <<"a","d","d","e","d"," ","B","y">>
sNotes == <<"N","o","t","e","s">>
sName == <<"N","a","m","e">>
sMerchantName == <<"M","e","r","c","h","a","n","t"," ","N","a","m","e">>
sOrgMID == <<"O","r","g"," ","+"," ","M","I","D">>
sRM == <<"R","M">>
sSource == <<"S","o","u","r","c","e">>
s_type == <<"_","t","y","p","e">>
sHOLD == <<"H","O","L","D">>
sHold == <<"H","o","l","d">>
sSheet1 == <<"S","h","e","e","t","1">>
sData == <<"D","a","t","a">>
sSummary == <<"S","u","m","m","a","r","y">>
sHoldList == <<"H","o","l","d"," ","L","i","s","t">>
sHold_Entries == <<"H","o","l","d","_","E","n","t","r","i","e","s">>
sRM_Entries == <<"R","M","_","E","n","t","r","i","e","s">>
vM100 == <<"M","1","0","0">>
vm_100 == <<"m","-","1","0","0">>
vM200 == <<"M","2","0","0">>
vM999 == <<"M","9","9","9">>
vOpen == <<"O","p","e","n">>
vClosed == <<"C","l","o","s","e","d">>
vA == <<"A">>
vB == <<"B">>
vOps == <<"O","p","s">>
vZ == <<"Z">>
vX == <<"x">>
vSystemEntry == <<"S","y","s","t","e","m"," ","E","n","t","r","y">>
vAcme == <<"A","c","m","e">>
vBolt == <<"B","o","l","t">>
vM300 == <<"M","3","0","0">>
vJo == <<"J","o">>

\* ------------------------------------------- ordered mappings (JS objects)
\* Object.keys(rec)
Keys(rec) == [i \in 1..Len(rec) |-> rec[i][1]]

\* rec[k] !== undefined
Has(rec, k) == \E i \in 1..Len(rec) : rec[i][1] = k

\* rec[k], for a key the object has
Get(rec, k) == rec[CHOOSE i \in 1..Len(rec) : rec[i][1] = k][2]

\* rec[k] = v: overwrite in place, or add the key at the end
Put(rec, k, v) ==
  IF Has(rec, k)
  THEN [i \in 1..Len(rec) |-> IF rec[i][1] = k THEN <<k, v>> ELSE rec[i]]
  ELSE Append(rec, <<k, v>>)

\* Array.prototype.find over a sequence, the callback given as the set of the
\* elements it accepts: index of the first hit, 0 when none.
FindIndex(seq, hits) ==
  IF \E i \in 1..Len(seq) : seq[i] \in hits
  THEN CHOOSE i \in 1..Len(seq) : seq[i] \in hits /\ \A j \in 1..(i - 1) : seq[j] \notin hits
  ELSE 0

\* ------------------------------------------------ the XLSX library's tables
\* A worksheet is its header row and the grid of data cells under it; a
\* workbook is SheetNames (ordered) and Sheets (by name), as in SheetJS.
\* `valid` is FALSE only for content that is not a complete workbook file.

\* XLSX.utils.sheet_to_json(ws, {defval: ""}): one object per data row, keyed
\* by the header row in header order, every header key present.
sheet_to_json(ws) ==
  [i \in 1..Len(ws.cells) |->
     [j \in 1..Len(ws.header) |-> <<ws.header[j], ws.cells[i][j]>>]]

\* The header json_to_sheet derives: the keys of all rows in order of first
\* appearance.
RECURSIVE HeaderOf(_, _)
HeaderOf(data, acc) ==
  IF data = <<>> THEN acc
  ELSE LET ks == Keys(Head(data))
           fresh == SelectSeq(ks, LAMBDA k : k \notin Range(acc))
       IN HeaderOf(Tail(data), acc \o fresh)

\* XLSX.utils.json_to_sheet(data); a key a row lacks leaves its cell empty,
\* which reads back as the defval "".
json_to_sheet(data) ==
  LET hdr == HeaderOf(data, <<>>)
  IN [header |-> hdr,
      cells  |-> [i \in 1..Len(data) |->
                    [j \in 1..Len(hdr) |->
                       IF Has(data[i], hdr[j]) /\ Get(data[i], hdr[j]) # NULL
                       THEN Get(data[i], hdr[j]) ELSE EMPTY]]]

\* Mutant: a new workbook holding the new worksheet alone is written.
SetSheetAlone(wb, sheetName, ws) ==
  [wb EXCEPT !.SheetNames = <<sheetName>>, !.Sheets = [n \in {sheetName} |-> ws]]

\* workbook.Sheets[sheetName] = newWorksheet
SetSheet(wb, sheetName, ws) ==
  [wb EXCEPT !.Sheets = [n \in DOMAIN wb.Sheets |-> IF n = sheetName THEN ws ELSE wb.Sheets[n]]]

\* XLSX.utils.book_append_sheet(workbook, ws, sheetName)
book_append_sheet(wb, ws, sheetName) ==
  [wb EXCEPT !.SheetNames = Append(wb.SheetNames, sheetName),
             !.Sheets = [n \in (DOMAIN wb.Sheets) \cup {sheetName} |->
                           IF n = sheetName THEN ws ELSE wb.Sheets[n]]]

\* Content that is not a complete workbook (a half-written file).
Torn == [valid |-> FALSE, SheetNames |-> <<>>, Sheets |-> [n \in {} |-> 0]]

\* ------------------------------------------------------- column resolution
\* findMidColumn(columns): the first column whose normalized key is one of
\* the candidates; NULL when none.
MidCandidateSet == Range(MidCandidates)

findMidColumn(columns) ==
  LET i == FindIndex(columns, {col \in Range(columns) : normalizeKey(col) \in MidCandidateSet})
  IN IF i = 0 THEN NULL ELSE columns[i]

\* FIELD_MAPPINGS[formKey] (the empty list when the key has no entry)
FieldMapping(formKey) ==
  LET i == FindIndex(FIELD_MAPPINGS, {e \in Range(FIELD_MAPPINGS) : e[1] = formKey})
  IN IF i = 0 THEN <<>> ELSE FIELD_MAPPINGS[i][2]

\* Mutant: a form key that resolves to no column is written under its own name.
TargetColOrKey(columns, formKey) ==
  LET norm  == FindIndex(columns, {c \in Range(columns) : normalizeKey(c) = normalizeKey(formKey)})
      alias == FindIndex(columns, {c \in Range(columns) : normalizeKey(c) \in Range(FieldMapping(formKey))})
  IN IF norm # 0 THEN columns[norm]
     ELSE IF alias # 0 THEN columns[alias]
     ELSE formKey

\* The target column of one form key in updateRowInMasterSheet: exact name,
\* then normalized-key equality, then FIELD_MAPPINGS alias; NULL when none.
TargetCol(columns, formKey) ==
  LET norm  == FindIndex(columns, {c \in Range(columns) : normalizeKey(c) = normalizeKey(formKey)})
      alias == FindIndex(columns, {c \in Range(columns) : normalizeKey(c) \in Range(FieldMapping(formKey))})
  IN IF formKey \in Range(columns) THEN formKey
     ELSE IF norm # 0 THEN columns[norm]
     ELSE IF alias # 0 THEN columns[alias]
     ELSE NULL

\* ------------------------------------------------------------ update cycles
Kinds == {"HOLD", "RM"}

\* The handle type as the source spells it ('HOLD' | 'RM').
KindStr(kind) == IF kind = "HOLD" THEN sHOLD ELSE sRM

\* targetSheetType.toLowerCase()
KindToken(kind) == [i \in 1..Len(KindStr(kind)) |-> toLowerCase(KindStr(kind)[i])]

\* existingNames.find(n => normalizeKey(n).includes(type.toLowerCase())):
\* index of the first sheet whose normalized name contains the token, 0 if none.
FuzzyMatch(wb, kind) ==
  FindIndex(wb.SheetNames, {n \in Range(wb.SheetNames) : includes(normalizeKey(n), KindToken(kind))})

\* Mutant: the first sheet is taken without looking for a match.
UpdateSheetNameFirst(wb, kind) == wb.SheetNames[1]

\* Step 4 of updateRowInMasterSheet: the fuzzy match, else the first sheet.
UpdateSheetName(wb, kind) ==
  IF FuzzyMatch(wb, kind) # 0 THEN wb.SheetNames[FuzzyMatch(wb, kind)]
  ELSE wb.SheetNames[1]

\* Mutant: the loop over the form keys ends at the first field without a
\* value instead of skipping it.
RECURSIVE PatchRowBreak(_, _, _)
PatchRowBreak(row, columns, updatedData) ==
  IF updatedData = <<>> \/ Head(updatedData)[2] = NULL THEN row
  ELSE LET targetCol == TargetCol(columns, Head(updatedData)[1])
           patched   == IF targetCol = NULL THEN row
                        ELSE Put(row, targetCol, Head(updatedData)[2])
       IN PatchRowBreak(patched, columns, Tail(updatedData))

\* Step 7 of updateRowInMasterSheet: Object.keys(updatedData).forEach(...),
\* applied to the located row in key order.
RECURSIVE PatchRow(_, _, _)
PatchRow(row, columns, updatedData) ==
  IF updatedData = <<>> THEN row
  ELSE LET formKey   == Head(updatedData)[1]
           value     == Head(updatedData)[2]
           targetCol == TargetCol(columns, formKey)
           patched   == IF value = NULL \/ targetCol = NULL THEN row
                        ELSE Put(row, targetCol, value)
       IN PatchRow(patched, columns, Tail(updatedData))

\* Steps 4 to 8 of updateRowInMasterSheet, from the workbook just read to the
\* workbook to write: alert is "" when the patch was applied.
UpdatePlan(wb, kind, midToFind, updatedData) ==
  LET sheetName == UpdateSheetName(wb, kind)
      jsonData  == sheet_to_json(wb.Sheets[sheetName])
      columns   == IF Len(jsonData) > 0 THEN Keys(jsonData[1]) ELSE <<>>
      midCol    == findMidColumn(columns)
      rowIndex  == IF midCol = NULL THEN 0
                   ELSE FindIndex(jsonData,
                          {row \in Range(jsonData) :
                             normalizeKey(Get(row, midCol)) = normalizeKey(midToFind)})
      newData   == [i \in 1..Len(jsonData) |->
                      IF i = rowIndex THEN PatchRow(jsonData[i], columns, updatedData)
                      ELSE jsonData[i]]
  IN [sheetName |-> sheetName,
      rowIndex  |-> rowIndex,
      alert     |-> IF midCol = NULL THEN "ColumnNotFound"
                    ELSE IF rowIndex = 0 THEN "RowNotFound" ELSE "",
      out       |-> IF midCol = NULL \/ rowIndex = 0 THEN wb
                    ELSE SetSheet(wb, sheetName, json_to_sheet(newData))]

\* k.startsWith('_')
StartsWithUnderscore(k) == Len(k) > 0 /\ k[1] = "_"

\* Step 5 of updateMasterSheet ("Check or Create Sheet"): the sheet named
\* exactly targetSheetName, else the fuzzy match, else the only sheet, else a
\* new empty sheet appended under targetSheetName.
AppendSheet(wb, kind, targetSheetName) ==
  IF targetSheetName \in DOMAIN wb.Sheets
    THEN [sheetName |-> targetSheetName, wb |-> wb]
  ELSE IF FuzzyMatch(wb, kind) # 0
    THEN [sheetName |-> wb.SheetNames[FuzzyMatch(wb, kind)], wb |-> wb]
  ELSE IF Len(wb.SheetNames) = 1
    THEN [sheetName |-> wb.SheetNames[1], wb |-> wb]
  ELSE [sheetName |-> targetSheetName,
        wb |-> book_append_sheet(wb, json_to_sheet(<<>>), targetSheetName)]

\* Step 7 of updateMasterSheet, one cell: the entry's value for column col.
AppendCell(entry, col) ==
  LET normCol == normalizeKey(col)
      mapped  == FindIndex(FIELD_MAPPINGS, {e \in Range(FIELD_MAPPINGS) : normCol \in Range(e[2])})
      fuzzy   == FindIndex(Keys(entry), {k \in Range(Keys(entry)) : normalizeKey(k) = normCol})
  IN IF Has(entry, col) THEN Get(entry, col)
     ELSE IF mapped # 0 /\ Has(entry, FIELD_MAPPINGS[mapped][1])
       THEN Get(entry, FIELD_MAPPINGS[mapped][1])
     ELSE IF fuzzy # 0 THEN entry[fuzzy][2]
     ELSE EMPTY

\* Step 7 of updateMasterSheet, one row.
AppendRow(entry, columns) ==
  IF Len(columns) = 0
  THEN SelectSeq(entry, LAMBDA kv : ~StartsWithUnderscore(kv[1]))
  ELSE [j \in 1..Len(columns) |-> <<columns[j], AppendCell(entry, columns[j])>>]

\* Mutant: a record whose row the sheet already holds is not appended again.
AppendPlanSkipWritten(wb, kind, targetSheetName, newRecords) ==
  LET sel          == AppendSheet(wb, kind, targetSheetName)
      existingData == sheet_to_json(sel.wb.Sheets[sel.sheetName])
      columns      == IF Len(existingData) > 0 THEN Keys(existingData[1])
                      ELSE SelectSeq(Keys(newRecords[1]), LAMBDA k : ~StartsWithUnderscore(k))
      mapped       == [i \in 1..Len(newRecords) |-> AppendRow(newRecords[i], columns)]
      dataToAppend == SelectSeq(mapped, LAMBDA row : row \notin Range(existingData))
      combinedData == existingData \o dataToAppend
  IN [sheetName |-> sel.sheetName,
      rowIndex  |-> 0,
      alert     |-> "",
      out       |-> SetSheet(sel.wb, sel.sheetName, json_to_sheet(combinedData))]

\* Mutant: the mapped rows are put before the rows the sheet already had.
AppendPlanPrepend(wb, kind, targetSheetName, newRecords) ==
  LET sel          == AppendSheet(wb, kind, targetSheetName)
      existingData == sheet_to_json(sel.wb.Sheets[sel.sheetName])
      columns      == IF Len(existingData) > 0 THEN Keys(existingData[1])
                      ELSE SelectSeq(Keys(newRecords[1]), LAMBDA k : ~StartsWithUnderscore(k))
      dataToAppend == [i \in 1..Len(newRecords) |-> AppendRow(newRecords[i], columns)]
      combinedData == dataToAppend \o existingData
  IN [sheetName |-> sel.sheetName,
      rowIndex  |-> 0,
      alert     |-> "",
      out       |-> SetSheet(sel.wb, sel.sheetName, json_to_sheet(combinedData))]

\* Steps 5 to 9 of updateMasterSheet, from the workbook just read to the
\* workbook to write.
AppendPlan(wb, kind, targetSheetName, newRecords) ==
  LET sel          == AppendSheet(wb, kind, targetSheetName)
      existingData == sheet_to_json(sel.wb.Sheets[sel.sheetName])
      columns      == IF Len(existingData) > 0 THEN Keys(existingData[1])
                      ELSE SelectSeq(Keys(newRecords[1]), LAMBDA k : ~StartsWithUnderscore(k))
      dataToAppend == [i \in 1..Len(newRecords) |-> AppendRow(newRecords[i], columns)]
      combinedData == existingData \o dataToAppend
  IN [sheetName |-> sel.sheetName,
      rowIndex  |-> 0,
      alert     |-> "",
      out       |-> SetSheet(sel.wb, sel.sheetName, json_to_sheet(combinedData))]

\* ------------------------------------------------- the search panel's tables
\* FIELD_GROUPS.flatMap(g => g.fields.map(f => f.key)), in source order
ALL_FORM_FIELDS ==
  << <<"C","u","r","r","e","n","t"," ","S","t","a","t","u","s">>, <<"A","c","c","o","u","n","t"," ","/"," ","S","e","t","t","l","e","m","e","n","t"," ","H","o","l","d">>, <<"D","a","t","e"," ","o","f"," ","H","o","l","d">>, <<"H","e","l","d"," ","B","y">>,
     <<"P","O","S","/","E","C","O","M">>, <<"R","M"," ","N","a","m","e">>, <<"C","h","a","n","n","e","l"," ","S","M","E","/","K","E","Y","/","G","O","V">>, <<"R","e","a","s","o","n"," ","o","f"," ","h","o","l","d">>,
     <<"F","M","U"," ","R","e","m","a","r","k","s">>, <<"D","a","t","e"," ","O","f"," ","R","e","l","a","s","e">>, <<"R","e","l","e","a","s","e","d"," ","B","y">>, <<"C","l","o","s","e","d"," ","D","a","t","e">>,
     <<"H","o","l","d"," ","A","m","o","u","n","t">>, <<"R","e","l","e","a","s","e"," ","A","m","o","u","n","t">>, <<"A","g","i","n","g"," ","o","f"," ","H","o","l","d">>,
     <<"A","g","i","n","g"," ","b","e","t","w","e","e","n"," ","H","o","l","d"," ","&"," ","R","e","l","e","a","s","e">>, <<"a","d","d","e","d"," ","B","y">> >>

\* The fields of FIELD_GROUPS whose type is 'date'
DateFields == {<<"D","a","t","e"," ","o","f"," ","H","o","l","d">>, <<"D","a","t","e"," ","O","f"," ","R","e","l","a","s","e">>, <<"C","l","o","s","e","d"," ","D","a","t","e">>}

\* fieldLabel === 'Hold Amount' || fieldLabel === 'Release Amount'
CurrencyFields == {<<"H","o","l","d"," ","A","m","o","u","n","t">>, <<"R","e","l","e","a","s","e"," ","A","m","o","u","n","t">>}

\* FIELD_ALIASES, as pairs <<form key, aliases>>
FIELD_ALIASES ==
  << <<<<"C","h","a","n","n","e","l"," ","S","M","E","/","K","E","Y","/","G","O","V">>, <<<<"f","i","n","a","l","s","e","g">>, <<"s","e","g","m","e","n","t">>, <<"c","h","a","n","n","e","l">>>>>>,
     <<<<"R","M"," ","N","a","m","e">>, <<<<"r","m">>, <<"r","m","n","a","m","e">>, <<"r","e","l","a","t","i","o","n","s","h","i","p","m","a","n","a","g","e","r">>, <<"m","a","n","a","g","e","r">>>>>> >>

s__sourceFile == <<"_","_","s","o","u","r","c","e","F","i","l","e">>
sRMName == <<"R","M"," ","N","a","m","e">>
sPOSECOM == <<"P","O","S","/","E","C","O","M">>
sDateOfHold == <<"D","a","t","e"," ","o","f"," ","H","o","l","d">>
sManager == <<"M","a","n","a","g","e","r">>
sDBA == <<"D","B","A">>
sRef == <<"R","e","f">>
sholdToken == <<"h","o","l","d">>
sManualFile == <<"S","y","s","t","e","m","_","M","a","n","u","a","l","_","E","n","t","r","y",".","x","l","s","x">>
sHoldJan == <<"H","o","l","d","_","J","a","n",".","x","l","s","x">>
sHoldFeb == <<"H","O","L","D","_","F","e","b",".","x","l","s","x">>
sHoldMar == <<"H","o","l","d","_","M","a","r",".","x","l","s","x">>
sRMMaster == <<"R","M","_","M","a","s","t","e","r",".","x","l","s","x">>
vPOS == <<"P","O","S">>
vActive == <<"A","c","t","i","v","e">>
vIso == <<"2","0","2","4","-","0","3","-","0","5">>
vUsDate == <<"0","3","/","0","5","/","2","0","2","4">>
vK == <<"K">>
qM1 == <<"M","1">>
qBlank == <<" ","\t">>
qAc == <<"a","c">>
Digits == <<"0","1","2","3","4","5","6","7","8","9">>
WhiteSpace == {" ", "\t"}

\* FIELD_ALIASES[field] (the empty list when the field has no entry)
FieldAliases(field) ==
  LET i == FindIndex(FIELD_ALIASES, {e \in Range(FIELD_ALIASES) : e[1] = field})
  IN IF i = 0 THEN <<>> ELSE FIELD_ALIASES[i][2]

NameCandidateSet == Range(NameCandidates)

findNameColumn(columns) ==
  LET i == FindIndex(columns, {col \in Range(columns) : normalizeKey(col) \in NameCandidateSet})
  IN IF i = 0 THEN NULL ELSE columns[i]

\* record[key], with NULL for undefined
Lookup(record, key) == IF Has(record, key) THEN Get(record, key) ELSE NULL

\* String.prototype.trim
RECURSIVE trimStart(_)
trimStart(s) == IF s # <<>> /\ Head(s) \in WhiteSpace THEN trimStart(Tail(s)) ELSE s

RECURSIVE trimEnd(_)
trimEnd(s) ==
  IF s # <<>> /\ s[Len(s)] \in WhiteSpace THEN trimEnd(SubSeq(s, 1, Len(s) - 1)) ELSE s

trim(s) == trimEnd(trimStart(s))

\* /^\d{4}-\d{2}-\d{2}$/
IsIsoDate(s) ==
  /\ Len(s) = 10
  /\ s[5] = "-" /\ s[8] = "-"
  /\ \A i \in {1, 2, 3, 4, 6, 7, 9, 10} : s[i] \in DigitChars

\* The digit's value
DigitValue(c) == CHOOSE v \in 0..9 : Digits[v + 1] = c

\* Number(strVal) for a string of decimal digits
RECURSIVE ToNumber(_)
ToNumber(s) ==
  IF s = <<>> THEN 0 ELSE 10 * ToNumber(SubSeq(s, 1, Len(s) - 1)) + DigitValue(s[Len(s)])

\* !isNaN(Number(strVal)), for the numerals written with digits alone
IsNumeral(s) == Len(s) > 0 /\ \A i \in 1..Len(s) : s[i] \in DigitChars

\* String(n)
RECURSIVE NumberToString(_)
NumberToString(n) ==
  IF n < 10 THEN <<Digits[n + 1]>>
  ELSE NumberToString(n \div 10) \o <<Digits[(n % 10) + 1]>>

\* String(n).padStart(2, '0')
PadTwo(n) == IF n < 10 THEN <<"0">> \o NumberToString(n) ELSE NumberToString(n)

\* `${m}/${d}/${y}`
FormatMDY(y, mo, d) == PadTwo(mo) \o <<"/">> \o PadTwo(d) \o <<"/">> \o NumberToString(y)

\* The year, month and day a Date holds for the day that is z days after
\* 1970-01-01 (getFullYear, getMonth() + 1, getDate).
DateOfDay(z) ==
  LET zz  == z + 719468
      era == zz \div 146097
      doe == zz - era * 146097
      yoe == (doe - (doe \div 1460) + (doe \div 36524) - (doe \div 146096)) \div 365
      doy == doe - (365 * yoe + (yoe \div 4) - (yoe \div 100))
      mp  == (5 * doy + 2) \div 153
      mo  == IF mp < 10 THEN mp + 3 ELSE mp - 9
  IN [y  |-> yoe + era * 400 + (IF mo <= 2 THEN 1 ELSE 0),
      mo |-> mo,
      d  |-> doy - ((153 * mp + 2) \div 5) + 1]

\* The month names Date parses, in any letter case
MonthNames ==
  << <<"j","a","n">>, <<"f","e","b">>, <<"m","a","r">>, <<"a","p","r">>,
     <<"m","a","y">>, <<"j","u","n">>, <<"j","u","l">>, <<"a","u","g">>,
     <<"s","e","p">>, <<"o","c","t">>, <<"n","o","v">>, <<"d","e","c">> >>

\* /^[A-Za-z]{3}\/\d{1,2}\/\d{4}$/
IsMonDayYear(s) ==
  /\ Len(s) \in {10, 11}
  /\ \A i \in 1..3 : toLowerCase(s[i]) \in Range(LowerChars)
  /\ s[4] = "/"
  /\ s[Len(s) - 4] = "/"
  /\ \A i \in (5..(Len(s) - 5)) \cup ((Len(s) - 3)..Len(s)) : s[i] \in DigitChars

DaysInMonth(y, mo) ==
  IF mo = 2 THEN (IF (y % 4 = 0 /\ y % 100 # 0) \/ y % 400 = 0 THEN 29 ELSE 28)
  ELSE IF mo \in {4, 6, 9, 11} THEN 30 ELSE 31

\* new Date('Mon/D/YYYY'): the format is outside the one ECMAScript
\* specifies, so what it gives depends on the engine.  "rejects": Invalid
\* Date.  "strict": the date, Invalid Date for a day the month does not have.
\* "rolls": the date, a day of 29 to 31 the month does not have running over
\* into the next month.  An unknown month name or a day of 0 or above 31 is
\* Invalid Date everywhere.  The result is [valid, y, mo, d].
NamedDate(s, engine) ==
  LET name == toLowerCaseString(SubSeq(s, 1, 3))
      mo   == FindIndex(MonthNames, {name})
      d    == ToNumber(SubSeq(s, 5, Len(s) - 5))
      y    == ToNumber(SubSeq(s, Len(s) - 3, Len(s)))
      bad  == [valid |-> FALSE, y |-> 0, mo |-> 0, d |-> 0]
  IN IF engine = "rejects" \/ mo = 0 \/ d = 0 \/ d > 31 THEN bad
     ELSE IF d <= DaysInMonth(y, mo) THEN [valid |-> TRUE, y |-> y, mo |-> mo, d |-> d]
     ELSE IF engine = "strict" THEN bad
     ELSE IF mo = 12 THEN [valid |-> TRUE, y |-> y + 1, mo |-> 1, d |-> d - 31]
     ELSE [valid |-> TRUE, y |-> y, mo |-> mo + 1, d |-> d - DaysInMonth(y, mo)]

\* Where parseExcelDate runs: whether the local time zone is 12 hours or more
\* ahead of UTC, and how the engine's Date parses a month name.
Environments == [ahead : BOOLEAN, engine : {"rejects", "strict", "rolls"}]

\* The zone and engine the panels' selections are modelled in
HomeEnvironment == [ahead |-> FALSE, engine |-> "rolls"]

\* parseExcelDate(value) run in env.  A number comes as its decimal string
\* (String(value)).  A numeral between 30000 and 60000 is a serial day: the
\* Date is noon UTC of the day (num - 25569) days after 1970-01-01, read with
\* the local getters, which in a zone 12 hours or more ahead of UTC give the
\* next day.  Then the ISO pattern, then the month-name pattern, else the
\* trimmed text.
parseExcelDateIn(value, env) ==
  IF value = NULL THEN EMPTY
  ELSE LET strVal == trim(value)
       IN IF strVal = EMPTY THEN EMPTY
          ELSE IF IsNumeral(strVal) /\ ToNumber(strVal) > 30000 /\ ToNumber(strVal) < 60000
            THEN LET date == DateOfDay(ToNumber(strVal) - 25569 + (IF env.ahead THEN 1 ELSE 0))
                 IN FormatMDY(date.y, date.mo, date.d)
          ELSE IF IsIsoDate(strVal)
            THEN SubSeq(strVal, 6, 7) \o <<"/">> \o SubSeq(strVal, 9, 10)
                   \o <<"/">> \o SubSeq(strVal, 1, 4)
          ELSE IF IsMonDayYear(strVal) /\ NamedDate(strVal, env.engine).valid
            THEN LET date == NamedDate(strVal, env.engine)
                 IN FormatMDY(date.y, date.mo, date.d)
          ELSE strVal

\* parseExcelDate as the panels call it
parseExcelDate(value) == parseExcelDateIn(value, HomeEnvironment)

\* formatCurrency for text values: null and '' give '', a value that has a
\* comma and a point followed by two characters is returned as it is, and a
\* value without a digit is unparseable and returned as it is.  The values of
\* this model's tables under the currency fields carry no digits, so the
\* toLocaleString branch is not entered.
formatCurrency(val) ==
  IF val = NULL \/ val = EMPTY THEN EMPTY ELSE val

\* db.columns[i] || ''
ColumnAt(columns, i) == IF Len(columns) >= i THEN columns[i] ELSE EMPTY

\* generateAutoMap of the config effect, one field: the first column whose
\* normalized key equals the normalized field, else the first column whose
\* normalized key is among the field's FIELD_ALIASES; 0 when none.
AutoMatch(columns, field) ==
  LET norm  == FindIndex(columns, {col \in Range(columns) : normalizeKey(col) = normalizeKey(field)})
      alias == FindIndex(columns,
                 {col \in Range(columns) : normalizeKey(col) \in Range(FieldAliases(field))})
  IN IF norm # 0 /\ columns[norm] # EMPTY THEN norm
     ELSE IF Len(FieldAliases(field)) > 0 THEN alias
     ELSE 0

RECURSIVE generateAutoMapFrom(_, _, _)
generateAutoMapFrom(columns, fields, autoMap) ==
  IF fields = <<>> THEN autoMap
  ELSE LET field == Head(fields)
           match == AutoMatch(columns, field)
       IN generateAutoMapFrom(columns, Tail(fields),
            IF match # 0 /\ columns[match] # EMPTY
            THEN Append(autoMap, <<field, columns[match]>>) ELSE autoMap)

generateAutoMap(columns) == generateAutoMapFrom(columns, ALL_FORM_FIELDS, <<>>)

\* activeProfile?.mappings?.[db.fileName] || {}
ProfileMappings(profile, fileName) ==
  IF profile.id # NULL /\ Has(profile.mappings, fileName)
  THEN Get(profile.mappings, fileName) ELSE <<>>

\* Mutant: a column that is not detected is left '' instead of defaulting to
\* the first or second column.
ConfigForNoDefault(db, profile) ==
  LET detectedMid  == findMidColumn(db.columns)
      detectedName == findNameColumn(db.columns)
      overrides    == ProfileMappings(profile, db.fileName)
  IN [midCol   |-> IF detectedMid # NULL THEN detectedMid ELSE EMPTY,
      nameCol  |-> IF detectedName # NULL THEN detectedName ELSE EMPTY,
      mappings |-> IF Len(overrides) > 0 THEN overrides ELSE generateAutoMap(db.columns)]

\* newConfigs[db.fileName] of the config effect
ConfigFor(db, profile) ==
  LET detectedMid  == findMidColumn(db.columns)
      detectedName == findNameColumn(db.columns)
      overrides    == ProfileMappings(profile, db.fileName)
  IN [midCol   |-> IF detectedMid # NULL THEN detectedMid ELSE ColumnAt(db.columns, 1),
      nameCol  |-> IF detectedName # NULL THEN detectedName ELSE ColumnAt(db.columns, 2),
      mappings |-> IF Len(overrides) > 0 THEN overrides ELSE generateAutoMap(db.columns)]

\* The config effect: one config per loaded table, keyed by file name (a later
\* table of the same name replaces the earlier one's config).
RECURSIVE NewConfigsFrom(_, _, _)
NewConfigsFrom(dbs, profile, newConfigs) ==
  IF dbs = <<>> THEN newConfigs
  ELSE NewConfigsFrom(Tail(dbs), profile,
         Put(newConfigs, Head(dbs).fileName, ConfigFor(Head(dbs), profile)))

NewConfigs(dbs, profile) == NewConfigsFrom(dbs, profile, <<>>)

\* ------------------------------------------------------------------ search
\* A loaded table (ParsedDatabase)
Table(fileName, columns, data) ==
  [fileName |-> fileName, columns |-> columns, data |-> data, rowCount |-> Len(data)]

\* d.fileName.toLowerCase().includes('hold')
IsHoldTable(db) == includes(toLowerCaseString(db.fileName), sholdToken)

\* String(row[col] || '')
CellText(row, col) ==
  IF Has(row, col) /\ Get(row, col) # NULL THEN Get(row, col) ELSE EMPTY

\* { ...match, __sourceFile: db.fileName }
Tagged(row, fileName) == Put(row, s__sourceFile, fileName)

\* Mutant: the tag is set on the table's own row and that row is returned.
TagTableRowsInPlace(db, rowVals, searchKey, col) ==
  [db EXCEPT !.data =
     [i \in 1..Len(db.data) |->
        IF includes(normalizeKey(CellText(db.data[i], col)), searchKey)
        THEN Tagged(db.data[i], db.fileName) ELSE db.data[i]]]

\* What a scan leaves of the table it filtered: db.data.filter reads the rows
\* and the results are spread copies, so the table is as it was.
TableAfterScan(db, rowVals, searchKey, col) == db

\* Mutant: the loop has no cap.
TakeAll(results, matches) == results \o matches

\* for (const match of matches) { if (results.length >= 20) break; push }
TakeUpToCap(results, matches) ==
  IF Len(results) + Len(matches) <= ResultCap THEN results \o matches
  ELSE results \o SubSeq(matches, 1, ResultCap - Len(results))

\* The loop of searchRecords over holdDatabases from position k on.  acc holds
\* results (so far), scanned (the file names whose rows were filtered, in
\* order) and tables (the scanned tables as the scan left them).
RECURSIVE ScanFrom(_, _, _, _, _, _)
ScanFrom(holdDatabases, k, configs, searchKey, type, acc) ==
  IF k > Len(holdDatabases) \/ Len(acc.results) >= ResultCap THEN acc
  ELSE LET db  == holdDatabases[k]
           has == Has(configs, db.fileName)
           col == IF ~has THEN EMPTY
                  ELSE IF type = "mid" THEN Get(configs, db.fileName).midCol
                  ELSE Get(configs, db.fileName).nameCol
       IN IF col = EMPTY
          THEN ScanFrom(holdDatabases, k + 1, configs, searchKey, type, acc)
          ELSE LET rowVals == [i \in 1..Len(db.data) |->
                                 normalizeKey(CellText(db.data[i], col))]
                   hits    == SelectSeq([i \in 1..Len(db.data) |-> i],
                                LAMBDA i : includes(rowVals[i], searchKey))
                   matches == [j \in 1..Len(hits) |->
                                 Tagged(db.data[hits[j]], db.fileName)]
               IN ScanFrom(holdDatabases, k + 1, configs, searchKey, type,
                    [results |-> TakeUpToCap(acc.results, matches),
                     scanned |-> Append(acc.scanned, db.fileName),
                     tables  |-> Append(acc.tables,
                                   TableAfterScan(db, rowVals, searchKey, col))])

\* Mutant: every loaded table is searched.
EligibleAll(dbs) == dbs

\* databases.filter(d => d.fileName.toLowerCase().includes('hold'))
Eligible(dbs) == SelectSeq(dbs, IsHoldTable)

\* Mutant: a blank query is searched like any other.
IsBlankQueryNever(query) == FALSE

\* !query.trim()
IsBlankQuery(query) == trim(query) = EMPTY

\* searchRecords(query, type) over the loaded tables dbs and the configs:
\* the results, the tables scanned, and those tables after the scan.
searchRecords(dbs, configs, query, type) ==
  IF Len(dbs) = 0 \/ IsBlankQuery(query)
  THEN [results |-> <<>>, scanned |-> <<>>, tables |-> <<>>]
  ELSE ScanFrom(Eligible(dbs), 1, configs, normalizeKey(query), type,
                [results |-> <<>>, scanned |-> <<>>, tables |-> <<>>])

\* The loaded tables after a search: each scanned table as the scan left it.
AfterSearch(dbs, found) ==
  [i \in 1..Len(dbs) |->
     LET k == FindIndex(found.tables,
                {t \in Range(found.tables) : t.fileName = dbs[i].fileName})
     IN IF k = 0 THEN dbs[i] ELSE found.tables[k]]

\* ------------------------------------------------------- record selection
\* handleSelectRecord, one field: the column the value is taken from (NULL
\* when none) and the value put in the form (NULL when the field is left
\* out).  The mapped column if the config has one for the field, else the
\* column named like the field; when that gives undefined, the first key of
\* the record whose normalized key equals the normalized field.
FieldRead(record, config, fieldLabel) ==
  LET mappedCol == IF Has(config.mappings, fieldLabel) /\ Get(config.mappings, fieldLabel) # EMPTY
                   THEN Get(config.mappings, fieldLabel) ELSE NULL
      first     == IF mappedCol # NULL THEN mappedCol ELSE fieldLabel
      keys      == Keys(record)
      normField == normalizeKey(fieldLabel)
      fuzzy     == FindIndex(keys, {k \in Range(keys) : normalizeKey(k) = normField})
      col       == IF Has(record, first) THEN first
                   ELSE IF fuzzy # 0 THEN keys[fuzzy]
                   ELSE NULL
      raw       == IF col = NULL THEN NULL ELSE Get(record, col)
      dated     == IF fieldLabel \in DateFields /\ raw # NULL /\ raw # EMPTY
                   THEN parseExcelDate(raw) ELSE raw
      val       == IF fieldLabel \in CurrencyFields /\ dated # NULL /\ dated # EMPTY
                   THEN formatCurrency(dated) ELSE dated
  IN [col |-> col, val |-> val]

RECURSIVE FormFrom(_, _, _, _)
FormFrom(record, config, fields, newForm) ==
  IF fields = <<>> THEN newForm
  ELSE LET r == FieldRead(record, config, Head(fields))
       IN FormFrom(record, config, Tail(fields),
            IF r.val # NULL THEN Put(newForm, Head(fields), r.val) ELSE newForm)

\* !newForm[key]
Falsy(form, key) == ~Has(form, key) \/ Get(form, key) \in {NULL, EMPTY}

\* Mutant: an active profile's defaults are set whatever the form holds.
WithDefaultsAlways(newForm, profile) ==
  LET f1 == IF profile.id # NULL /\ profile.defaultHeldBy # EMPTY
            THEN Put(newForm, sHeldBy, profile.defaultHeldBy) ELSE newForm
  IN IF profile.id # NULL /\ profile.defaultPosEcom # EMPTY
     THEN Put(f1, sPOSECOM, profile.defaultPosEcom) ELSE f1

\* The profile defaults of handleSelectRecord
WithDefaults(newForm, profile) ==
  LET f1 == IF profile.id # NULL /\ Falsy(newForm, sHeldBy) /\ profile.defaultHeldBy # EMPTY
            THEN Put(newForm, sHeldBy, profile.defaultHeldBy) ELSE newForm
  IN IF profile.id # NULL /\ Falsy(f1, sPOSECOM) /\ profile.defaultPosEcom # EMPTY
     THEN Put(f1, sPOSECOM, profile.defaultPosEcom) ELSE f1

\* newForm of handleSelectRecord: the name under 'Merchant Name' when the
\* config has a name column, then every form field that has a value.
SelectedForm(record, config, profile) ==
  LET named == IF config.nameCol # EMPTY
               THEN <<<<sMerchantName, Lookup(record, config.nameCol)>>>> ELSE <<>>
  IN WithDefaults(FormFrom(record, config, ALL_FORM_FIELDS, named), profile)

\* The columns the form fields were read from, as pairs <<field, column>>.
ReadFrom(record, config) ==
  LET reads == [i \in 1..Len(ALL_FORM_FIELDS) |->
                  <<ALL_FORM_FIELDS[i], FieldRead(record, config, ALL_FORM_FIELDS[i]).col>>]
  IN SelectSeq(reads, LAMBDA kv : kv[2] # NULL)

\* ------------------------------------------------------------ manual entry
sUndefined == <<"u","n","d","e","f","i","n","e","d">>
kMid == <<"m","i","d">>
kMerchantid == <<"m","e","r","c","h","a","n","t","i","d">>
kOrgmid == <<"o","r","g","m","i","d">>
kName == <<"n","a","m","e">>
kMerchantname == <<"m","e","r","c","h","a","n","t","n","a","m","e">>
kCurrentStatus == <<"c","u","r","r","e","n","t"," ","s","t","a","t","u","s">>
kStatus == <<"s","t","a","t","u","s">>
kHeldBy == <<"h","e","l","d"," ","b","y">>

\* String(row[col])
CellString(row, col) == IF Has(row, col) THEN Get(row, col) ELSE sUndefined

\* AddManualEntry.searchDatabases, the loop from table k on
RECURSIVE SearchDatabasesFrom(_, _, _, _, _)
SearchDatabasesFrom(dbs, k, normalizedQuery, type, matches) ==
  IF k > Len(dbs) \/ Len(matches) > ManualCap THEN matches
  ELSE LET db        == dbs[k]
           targetCol == IF type = "mid" THEN findMidColumn(db.columns)
                        ELSE findNameColumn(db.columns)
           hits      == SelectSeq([i \in 1..Len(db.data) |-> i],
                          LAMBDA i : targetCol # NULL /\
                            includes(normalizeKey(CellString(db.data[i], targetCol)),
                                     normalizedQuery))
           found     == [j \in 1..Len(hits) |-> Tagged(db.data[hits[j]], db.fileName)]
       IN SearchDatabasesFrom(dbs, k + 1, normalizedQuery, type, matches \o found)

\* AddManualEntry.searchDatabases(query, type)
searchDatabases(dbs, query, type) ==
  IF Len(query) < 2 THEN <<>>
  ELSE LET matches == SearchDatabasesFrom(dbs, 1, normalizeKey(query), type, <<>>)
       IN SubSeq(matches, 1, IF Len(matches) < ManualCap THEN Len(matches) ELSE ManualCap)

\* Mutant: the table the selected record came from is scanned like the others.
RECURSIVE AllMatchesFromEvery(_, _, _, _)
AllMatchesFromEvery(dbs, initialRecord, normalizedMid, allMatches) ==
  IF dbs = <<>> THEN allMatches
  ELSE LET db       == Head(dbs)
           dbMidKey == findMidColumn(db.columns)
           match    == IF dbMidKey = NULL THEN 0
                       ELSE FindIndex(db.data,
                              {row \in Range(db.data) :
                                 normalizeKey(CellString(row, dbMidKey)) = normalizedMid})
       IN AllMatchesFromEvery(Tail(dbs), initialRecord, normalizedMid,
            IF match = 0 THEN allMatches ELSE Append(allMatches, db.data[match]))

\* populateFields: the selected record, then for every other table with an
\* identifier column its first row of the same normalized identifier.
RECURSIVE AllMatchesFrom(_, _, _, _)
AllMatchesFrom(dbs, initialRecord, normalizedMid, allMatches) ==
  IF dbs = <<>> THEN allMatches
  ELSE LET db       == Head(dbs)
           dbMidKey == findMidColumn(db.columns)
           match    == IF dbMidKey = NULL THEN 0
                       ELSE FindIndex(db.data,
                              {row \in Range(db.data) :
                                 normalizeKey(CellString(row, dbMidKey)) = normalizedMid})
       IN AllMatchesFrom(Tail(dbs), initialRecord, normalizedMid,
            IF Lookup(initialRecord, s__sourceFile) = db.fileName \/ match = 0
            THEN allMatches ELSE Append(allMatches, db.data[match]))

AllMatches(dbs, initialRecord) ==
  LET midKey == findMidColumn(Keys(initialRecord))
  IN IF midKey = NULL THEN <<initialRecord>>
     ELSE AllMatchesFrom(dbs, initialRecord,
            normalizeKey(Get(initialRecord, midKey)), <<initialRecord>>)

\* findVal of populateFields, one record and one key: the value under the key
\* itself, else under the first key of the same normalized key; NULL if blank.
FindValAt(record, k) ==
  LET keys     == Keys(record)
      normKey  == normalizeKey(k)
      matchKey == FindIndex(keys, {rk \in Range(keys) : normalizeKey(rk) = normKey})
  IN IF Has(record, k) /\ trim(Get(record, k)) # EMPTY THEN Get(record, k)
     ELSE IF matchKey # 0 /\ trim(record[matchKey][2]) # EMPTY THEN record[matchKey][2]
     ELSE NULL

\* findVal(keys): records first, keys second; '' when nothing is found.
RECURSIVE findVal(_, _, _)
findVal(allMatches, keys, j) ==
  IF allMatches = <<>> THEN EMPTY
  ELSE IF j > Len(keys) THEN findVal(Tail(allMatches), keys, 1)
  ELSE IF FindValAt(Head(allMatches), keys[j]) # NULL
    THEN FindValAt(Head(allMatches), keys[j])
  ELSE findVal(allMatches, keys, j + 1)

\* a || b
OrElse(a, b) == IF a # EMPTY THEN a ELSE b

\* The Hold form after populateFields (the form cut to four fields)
populateFields(dbs, initialRecord, form, profile) ==
  LET allMatches == AllMatches(dbs, initialRecord)
  IN [mid  |-> OrElse(findVal(allMatches, <<kMid, kMerchantid, kOrgmid>>, 1), form.mid),
      name |-> OrElse(findVal(allMatches, <<kName, kMerchantname>>, 1), form.name),
      currentStatus |-> OrElse(findVal(allMatches, <<kCurrentStatus, kStatus>>, 1), vActive),
      heldBy |-> OrElse(findVal(allMatches, <<kHeldBy>>, 1),
                        IF profile.id # NULL THEN profile.defaultHeldBy ELSE EMPTY)]

\* The Hold form as handleHoldSubmit leaves it
BlankHoldForm(profile) ==
  [mid |-> EMPTY, name |-> EMPTY, currentStatus |-> vActive,
   heldBy |-> IF profile.id # NULL THEN profile.defaultHeldBy ELSE EMPTY]

\* The record handleHoldSubmit hands to onSave (cut to the form's four fields)
HoldRecord(form) ==
  << <<sMerchantID, form.mid>>, <<sMerchantName, form.name>>,
     <<sCurrentStatus, form.currentStatus>>, <<sHeldBy, form.heldBy>>,
     <<sSource, vSystemEntry>>, <<s_type, sHOLD>> >>

\* Mutant: the columns of the virtual table stay as they were.
MergeColumnsKept(columns, keys) == columns

\* Array.from(new Set([...columns, ...Object.keys(data)]))
MergeColumns(columns, keys) ==
  columns \o SelectSeq(keys, LAMBDA k : k \notin Range(columns))

\* App.handleManualEntrySave: the tables after the save
SavedManualEntry(dbs, data) ==
  LET i == FindIndex(dbs, {db \in Range(dbs) : db.fileName = sManualFile})
  IN IF i # 0
     THEN [dbs EXCEPT ![i] = [@ EXCEPT !.rowCount = @ + 1,
                                         !.data = Append(@, data),
                                         !.columns = MergeColumns(@, Keys(data))]]
     ELSE Append(dbs, [fileName |-> sManualFile, rowCount |-> 1,
                       data |-> <<data>>, columns |-> Keys(data)])

\* ------------------------------------------------------------------ inputs
WS(header, cells) == [header |-> header, cells |-> cells]

WB(names, sheets) ==
  [valid |-> TRUE, SheetNames |-> names,
   Sheets |-> [n \in Range(names) |-> sheets[CHOOSE i \in 1..Len(names) : names[i] = n]]]

\* One sheet named for the kind; two rows share the normalized identifier m100.
WbHold ==
  WB(<<sHold>>,
     <<WS(<<sMID, sStatus, sHeld_By>>,
          <<<<vM100, vOpen, vA>>, <<vM200, vOpen, vB>>, <<vm_100, vOpen, vB>>>>)>>)

\* Two sheets, neither named for a kind.
WbTwoPlain ==
  WB(<<sSheet1, sData>>,
     <<WS(<<sMerchantID, sCurrentStatus>>, <<<<vM100, vOpen>>, <<vM200, vOpen>>>>),
       WS(<<sNotes>>, <<<<vX>>>>)>>)

\* A matching sheet holding only its header row.
WbHeaderOnly == WB(<<sHold>>, <<WS(<<sMID, sStatus>>, <<>>)>>)

\* The matching sheet is the second of two; it has an 'added By' column.
WbSecond ==
  WB(<<sSummary, sHoldList>>,
     <<WS(<<sNotes>>, <<<<vX>>>>),
       WS(<<sMerchantID, sStatus, sAddedBy>>, <<<<vM100, vOpen, vA>>>>)>>)

\* A single sheet, not named for a kind, with no identifier column.
WbNoMid == WB(<<sSheet1>>, <<WS(<<sName, sStatus>>, <<<<vAcme, vOpen>>>>)>>)

\* A fuzzy match placed before the sheets named Hold_Entries and RM_Entries.
WbEntries ==
  WB(<<sHoldList, sHold_Entries, sRM_Entries>>,
     <<WS(<<sMID, sStatus>>, <<<<vM100, vOpen>>>>),
       WS(<<sMerchantID, sCurrentStatus>>, <<<<vM200, vOpen>>>>),
       WS(<<sOrgMID, sRM>>, <<<<vM200, vJo>>>>)>>)

Workbooks == {WbHold, WbTwoPlain, WbHeaderOnly, WbSecond, WbNoMid, WbEntries}

\* What the search panel holds when Update is pressed: the MID input (mid)
\* and the form (formData), keyed by form field.  The second form carries a
\* field without a value and two fields most sheets have no column for.
SearchInputs ==
  { [mid |-> vM100, formData |-> <<<<sCurrentStatus, vClosed>>, <<sHeldBy, EMPTY>>>>],
    [mid |-> vm_100,
     formData |-> <<<<sMerchantName, NULL>>, <<sHeldBy, vOps>>, <<sAddedBy, vZ>>>>],
    [mid |-> vM999, formData |-> <<<<sCurrentStatus, vClosed>>, <<sHeldBy, EMPTY>>>>] }

\* Rows of the virtual table System_Manual_Entry.xlsx (handleHoldSubmit and
\* handleRmSubmit records, cut to the fields the inputs exercise).
HoldEntry(m, n) ==
  << <<sMerchantID, m>>, <<sMerchantName, n>>, <<sCurrentStatus, vOpen>>,
     <<sHeldBy, vOps>>, <<sSource, vSystemEntry>>, <<s_type, sHOLD>> >>

RmEntry(m, n) ==
  << <<sOrgMID, m>>, <<sMerchantName, n>>, <<sRM, vJo>>,
     <<sSource, vSystemEntry>>, <<s_type, sRM>> >>

ManualQueues ==
  { <<>>,
    <<HoldEntry(vM300, vAcme), RmEntry(vM300, vAcme), HoldEntry(vM999, vBolt)>> }

\* ------------------------------------------------- inputs of the search panel
\* sheet_to_json rows of a table: one object per row, keyed by the columns.
Rows(columns, cells) ==
  [i \in 1..Len(cells) |-> [j \in 1..Len(columns) |-> <<columns[j], cells[i][j]>>]]

\* processWorkbook for a first sheet whose first row is the header row: the
\* columns are the header and the data the rows under it.
processWorkbook(workbook, fileName) ==
  LET sheet == workbook.Sheets[workbook.SheetNames[1]]
  IN Table(fileName, sheet.header, sheet_to_json(sheet))

\* A Hold table with identifier, name, status and held-by columns, a manager
\* column that only FIELD_ALIASES reaches, and an ISO hold date.
TblHoldJan ==
  Table(sHoldJan, <<sMID, sName, sCurrentStatus, sHeldBy, sManager, sDateOfHold>>,
        Rows(<<sMID, sName, sCurrentStatus, sHeldBy, sManager, sDateOfHold>>,
             <<<<vM100, vAcme, vOpen, vA, vJo, vIso>>,
               <<vM200, vBolt, vClosed, EMPTY, vJo, vUsDate>>,
               <<vm_100, vBolt, vClosed, EMPTY, vJo, EMPTY>>>>))

\* A table that is no Hold table and holds the same identifiers.
TblRMMaster ==
  Table(sRMMaster, <<sOrgMID, sMerchantName, sRM>>,
        Rows(<<sOrgMID, sMerchantName, sRM>>,
             <<<<vM100, vAcme, vJo>>, <<vM200, vBolt, vJo>>>>))

\* A Hold table none of whose columns is an identifier or name alias.
TblHoldFeb ==
  Table(sHoldFeb, <<sRef, sNotes, sStatus>>,
        Rows(<<sRef, sNotes, sStatus>>,
             <<<<vM100, vAcme, vOpen>>, <<vM300, vX, vOpen>>>>))

\* The reference 01, 02, ... of row i of a large table
RowRef(i) == <<Digits[(i \div 10) + 1], Digits[(i % 10) + 1]>>

\* A Hold table of MaxRows rows that differ in their reference only
TblBig(fileName) ==
  Table(fileName, <<sMID, sName, sRef>>,
        [i \in 1..MaxRows |-> << <<sMID, vK>>, <<sName, vAcme>>, <<sRef, RowRef(i)>> >>])

DatabaseLists ==
  { <<>>,
    <<TblRMMaster>>,
    <<TblHoldJan, TblRMMaster>>,
    <<TblRMMaster, TblHoldFeb, TblHoldJan>>,
    <<TblBig(sHoldJan), TblBig(sHoldFeb), TblBig(sHoldMar)>> }

\* activeProfile === null
NoProfile ==
  [id |-> NULL, mappings |-> <<>>, defaultHeldBy |-> EMPTY, defaultPosEcom |-> EMPTY]

UserProfile(mappings, defaultHeldBy) ==
  [id |-> vA, mappings |-> mappings, defaultHeldBy |-> defaultHeldBy,
   defaultPosEcom |-> EMPTY]

\* The stored profiles: none; one without mappings and with both defaults;
\* one whose mappings for Hold_Jan.xlsx swap two columns; one whose only
\* mapping for Hold_Jan.xlsx names a column the table does not have.
Profiles ==
  { NoProfile,
    [UserProfile(<<>>, vOps) EXCEPT !.defaultPosEcom = vPOS],
    UserProfile(<< <<sHoldJan, << <<sCurrentStatus, sHeldBy>>,
                                  <<sHeldBy, sCurrentStatus>> >> >> >>, EMPTY),
    UserProfile(<< <<sHoldJan, << <<sHeldBy, sStatus>> >> >> >>, EMPTY) }

MidQueries == {EMPTY, qBlank, qM1, vK}
NameQueries == {qAc}
EntryQueries == {vA, qM1}

\* -------------------------------------------------------------------- state
VARIABLES
  file,           \* content of the linked resource behind each handle kind
  cycles,         \* the update cycles started so far, in start order
  commitLog,      \* ids of the cycles whose writable was closed, in close order
  isUpdating,     \* SearchPanel's in-flight flag
  updateMsg,      \* SearchPanel's message: "null", "success" or "error"
  mid,            \* SearchPanel's MID input
  formData,       \* SearchPanel's form
  manualEntries,  \* data of System_Manual_Entry.xlsx ([] when not loaded)
  databases,      \* App's loaded tables, in load order
  activeProfile,  \* App's active profile (NoProfile for null)
  dbConfigs,      \* SearchPanel's config per file name
  midSuggestions, \* SearchPanel's suggestions under the MID input
  nameSuggestions, \* SearchPanel's suggestions under the name input
  scanned,        \* file names whose rows the latest search filtered
  picked,         \* the record handleSelectRecord filled the form from; <<>>
                  \* once the MID or the name input is typed in again
  holdForm,       \* AddManualEntry's Hold form
  entrySuggestions, \* AddManualEntry's suggestions under its MID input
  chosen,         \* the suggestion populateFields filled the Hold form from;
                  \* <<>> once the panel's MID input is typed in again or the
                  \* form is submitted
  input,          \* the argument of a helper function under test
  output,         \* what the helper returned for it
  applied,        \* the helper applied last ("none" before any)
  configTargetDb, \* the file name of the table being configured ('' for none)
  profileStore,   \* the stored profiles, by id
  saves,          \* the updateMapping calls under way, oldest first: the
                  \* profile each saves and whether its save has completed
  overridden,     \* the overrides made, oldest first: table, field, column
                  \* and the number of calls under way when it was made
  savedData,      \* the table list persisted under 'current_list'
  activeProfileId, \* the stored id of the active profile (NULL for none)
  importRun,      \* the configuration import made last: its document, the
                  \* store and active id before it, its outcome and its number
  stateQueue,     \* the updates of the table list that are queued and not
                  \* yet rendered, oldest first
  pendingOps      \* the puts and deletes of 'current_list' started and not
                  \* yet completed, oldest first

cycleVars == <<file, cycles, commitLog, isUpdating, updateMsg>>

panelVars == <<databases, activeProfile, dbConfigs, midSuggestions, nameSuggestions,
               scanned, picked, holdForm, entrySuggestions, chosen>>

\* The helper functions' argument and result
pureVars == <<input, output, applied>>

\* The mapping configuration and the profile store
configVars == <<configTargetDb, profileStore, saves, overridden>>

\* The persisted table list, the stored active id and the import made last
storeVars == <<savedData, activeProfileId, importRun>>

\* The queued updates of the table list and the store operations under way
queueVars == <<stateQueue, pendingOps>>

\* What the handlers of the panels never touch
otherVars == <<pureVars, configVars, storeVars, queueVars>>

vars == <<cycleVars, mid, formData, manualEntries, panelVars, otherVars>>

\* No mapping is being configured and no profile is stored.
ConfigIdle ==
  /\ configTargetDb = EMPTY
  /\ profileStore = <<>>
  /\ saves = <<>>
  /\ overridden = <<>>

\* No configuration import was made.
NoImport ==
  [document |-> [json |-> FALSE, hasProfiles |-> FALSE, isArray |-> FALSE,
                 profiles |-> <<>>, activeProfileId |-> NULL],
   storeBefore |-> <<>>, idBefore |-> NULL, committed |-> FALSE,
   result |-> "none", nth |-> 0]

\* Nothing is persisted and nothing was imported.
StoreIdle ==
  /\ savedData = <<>>
  /\ activeProfileId = NULL
  /\ importRun = NoImport
  /\ stateQueue = <<>>
  /\ pendingOps = <<>>

\* No helper is under test.
HelpersIdle ==
  /\ input = NULL
  /\ output = NULL
  /\ applied = "none"
  /\ ConfigIdle
  /\ StoreIdle

\* The config effect's choice of the table being configured: the first
\* table when none is chosen or the chosen one is no longer loaded.
TargetAfter(target, dbs) ==
  LET firstDb == IF dbs = <<>> THEN EMPTY ELSE dbs[1].fileName
  IN IF target = EMPTY /\ firstDb # EMPTY THEN firstDb
     ELSE IF target # EMPTY /\ \A db \in Range(dbs) : db.fileName # target THEN firstDb
     ELSE target

\* saveUserProfile's store.put(profile): the record of that id is replaced
PutProfile(store, profile) == Put(store, profile.id, profile)

\* The profile store the active profile was loaded from
StoreOf(profile) == IF profile.id = NULL THEN <<>> ELSE PutProfile(<<>>, profile)

\* No table is loaded and the panels are as mounted.
PanelIdle ==
  /\ databases = <<>>
  /\ activeProfile = NoProfile
  /\ dbConfigs = <<>>
  /\ midSuggestions = <<>>
  /\ nameSuggestions = <<>>
  /\ scanned = <<>>
  /\ picked = <<>>
  /\ holdForm = BlankHoldForm(NoProfile)
  /\ entrySuggestions = <<>>
  /\ chosen = <<>>

Init ==
  /\ \E w \in Workbooks : file = [k \in Kinds |-> IF k = "HOLD" THEN w ELSE WbEntries]
  /\ cycles = <<>>
  /\ commitLog = <<>>
  /\ isUpdating = FALSE
  /\ updateMsg = "null"
  /\ \E s \in SearchInputs : mid = s.mid /\ formData = s.formData
  /\ manualEntries \in ManualQueues
  /\ PanelIdle
  /\ HelpersIdle

\* A cycle at its call: nothing fetched, read or written yet.
NewCycle(op, kind) ==
  [op |-> op, kind |-> kind, pc |-> "getHandle",
   midToFind |-> EMPTY, updatedData |-> <<>>,
   targetSheetName |-> EMPTY, newRecords |-> <<>>,
   wb |-> Torn, out |-> Torn, sheetName |-> EMPTY, rowIndex |-> 0,
   swap |-> "none", result |-> "", alert |-> "", failStep |-> "",
   queried |-> "", requested |-> "",
   nQuery |-> 0, nRequest |-> 0, nRead |-> 0,
   nCreateWritable |-> 0, nWrite |-> 0, nClose |-> 0,
   before |-> file[kind], after |-> Torn,
   startSeq |-> Len(commitLog), readSeq |-> 0, endSeq |-> 0]

\* return false after an alert (or from the catch block).
Fail(c, alert, step) ==
  [c EXCEPT !.pc = "done", !.result = "FAILED", !.alert = alert, !.failStep = step]

\* The promise rejects: the exception leaves the function.
Throw(c, step) ==
  [c EXCEPT !.pc = "done", !.result = "THROWN", !.failStep = step]

InFlight(i) == cycles[i].pc # "done"

\* What the caller of updateRowInMasterSheet / updateMasterSheet gets back from
\* a finished cycle: the promise's boolean, or its rejection.  The alert text
\* is shown to the user by the callee and is no part of it.
ReturnValue(c) ==
  CASE c.result = "SUCCESS" -> "true"
    [] c.result = "FAILED"  -> "false"
    [] OTHER                -> "rejected"

\* ------------------------------------------------------------------ actions
\* handleUpdateExcel after the await: true gives the success message, false
\* the error message, and a rejection is caught and gives the error message.
UpdateMsgOf(result) == IF result = "SUCCESS" THEN "success" ELSE "error"

\* Mutant: handleUpdateExcel without try/catch/finally; a rejection leaves the
\* handler at the await, the flag set and no message shown.
StepWithoutFinally(i, c, content, log) ==
  LET done == c.pc = "done"
      c2   == IF done THEN [c EXCEPT !.after = content, !.endSeq = Len(log)] ELSE c
      back == done /\ c.op = "Update" /\ c.result # "THROWN"
  IN /\ cycles' = [cycles EXCEPT ![i] = c2]
     /\ file' = [file EXCEPT ![c.kind] = content]
     /\ commitLog' = log
     /\ isUpdating' = IF back THEN FALSE ELSE isUpdating
     /\ updateMsg' = IF back THEN UpdateMsgOf(c.result) ELSE updateMsg
     /\ UNCHANGED <<otherVars, mid, formData, manualEntries, panelVars>>

\* One step of cycle i ends with the cycle record c and the resource holding
\* content: the cycle is stored, its resource updated, and a cycle that became
\* terminal is stamped; a terminal Update sets the search panel's message and
\* clears its flag (handleUpdateExcel's try, catch and finally blocks).
Step(i, c, content, log) ==
  LET done == c.pc = "done"
      c2   == IF done THEN [c EXCEPT !.after = content, !.endSeq = Len(log)] ELSE c
      back == done /\ c.op = "Update"
  IN /\ cycles' = [cycles EXCEPT ![i] = c2]
     /\ file' = [file EXCEPT ![c.kind] = content]
     /\ commitLog' = log
     /\ isUpdating' = IF back THEN FALSE ELSE isUpdating
     /\ updateMsg' = IF back THEN UpdateMsgOf(c.result) ELSE updateMsg
     /\ UNCHANGED <<otherVars, mid, formData, manualEntries, panelVars>>

\* SearchPanel.handleUpdateExcel up to the first await of
\* updateRowInMasterSheet('HOLD', mid, formData).  The button is disabled
\* while isUpdating or when mid is empty.
handleUpdateExcel ==
  /\ Len(cycles) < MaxCycles
  /\ ~isUpdating
  /\ mid # EMPTY
  /\ cycles' = Append(cycles,
       [NewCycle("Update", "HOLD") EXCEPT !.midToFind = mid, !.updatedData = formData])
  /\ isUpdating' = TRUE
  /\ updateMsg' = "null"
  /\ UNCHANGED <<otherVars, file, commitLog, mid, formData, manualEntries, panelVars>>

\* updateMasterSheet(targetSheetName, databases) up to its first await: the
\* queued records of the requested type, or "No new entries".
StartAppend(kind, targetSheetName) ==
  LET newRecords == SelectSeq(manualEntries,
                      LAMBDA r : Has(r, s_type) /\ Get(r, s_type) = KindStr(kind))
      c == [NewCycle("Append", kind) EXCEPT
              !.targetSheetName = targetSheetName, !.newRecords = newRecords]
  IN /\ Len(cycles) < MaxCycles
     /\ cycles' = Append(cycles,
          IF Len(newRecords) = 0
          THEN [Fail(c, "NoNewEntries", "entry") EXCEPT !.after = file[kind],
                                                       !.endSeq = Len(commitLog)]
          ELSE c)
     /\ UNCHANGED <<otherVars, file, commitLog, isUpdating, updateMsg, mid, formData, manualEntries, panelVars>>

\* AddManualEntry.handleUpdateHold
handleUpdateHold == StartAppend("HOLD", sHold_Entries)

\* AddManualEntry.handleUpdateRM
handleUpdateRM == StartAppend("RM", sRM_Entries)

\* await getMasterHandle(type): the stored handle, null when none is linked or
\* the store cannot be opened, or a rejection when the store's get request
\* fails (the promise is returned from inside the try without await).
getMasterHandle(i) ==
  /\ i \in 1..Len(cycles) /\ cycles[i].pc = "getHandle"
  /\ \E outcome \in {"handle", "null", "throw"} :
       LET c == cycles[i]
       IN Step(i,
               CASE outcome = "handle" -> [c EXCEPT !.pc = "query"]
                 [] outcome = "null"   -> Fail(c, "NoLinkedResource", "getHandle")
                 [] OTHER              -> Throw(c, "getHandle"),
               file[c.kind], commitLog)

\* await fileHandle.queryPermission({mode: 'readwrite'})
queryPermission(i) ==
  /\ i \in 1..Len(cycles) /\ cycles[i].pc = "query"
  /\ \E outcome \in {"granted", "prompt", "throw"} :
       LET c == [cycles[i] EXCEPT !.nQuery = @ + 1]
       IN Step(i,
               CASE outcome = "granted" -> [c EXCEPT !.pc = "read", !.queried = "granted"]
                 [] outcome = "prompt"  -> [c EXCEPT !.pc = "request", !.queried = "prompt"]
                 [] OTHER               -> Fail(c, "Caught", "query"),
               file[c.kind], commitLog)

\* Mutant: the refusal is reported but the cycle goes on to read.
PermissionRefusedGoesOn(c) == [c EXCEPT !.pc = "read", !.alert = "PermissionDenied"]

\* The re-request was refused: alert("Permission denied. ...") and return false.
PermissionRefused(c) == Fail(c, "PermissionDenied", "request")

\* await fileHandle.requestPermission({mode: 'readwrite'})
requestPermission(i) ==
  /\ i \in 1..Len(cycles) /\ cycles[i].pc = "request"
  /\ \E outcome \in {"granted", "denied", "throw"} :
       LET c == [cycles[i] EXCEPT !.nRequest = @ + 1]
       IN Step(i,
               CASE outcome = "granted" -> [c EXCEPT !.pc = "read", !.requested = "granted"]
                 [] outcome = "denied"  -> PermissionRefused([c EXCEPT !.requested = "denied"])
                 [] OTHER               -> Fail(c, "Caught", "request"),
               file[c.kind], commitLog)

\* The plan of a cycle for the workbook wb it read.
PlanOf(c, wb) ==
  IF c.op = "Update" THEN UpdatePlan(wb, c.kind, c.midToFind, c.updatedData)
  ELSE AppendPlan(wb, c.kind, c.targetSheetName, c.newRecords)

\* Mutant: the sheet is written back before the "not found" checks.
LocateFailedAfterRewrite(c, content, plan) ==
  [cycle |-> [Fail(c, plan.alert, "locate") EXCEPT
                !.nCreateWritable = 1, !.nWrite = 1, !.nClose = 1],
   content |-> SetSheet(content, plan.sheetName,
                 json_to_sheet(sheet_to_json(content.Sheets[plan.sheetName])))]

\* The identifier column or the row was not found: alert and return false.
\* The resource keeps the content it has.
LocateFailed(c, content, plan) ==
  [cycle |-> Fail(c, plan.alert, "locate"), content |-> content]

\* Steps 3 to 8: getFile, arrayBuffer and XLSX.read, then the synchronous
\* code up to XLSX.write.  A missing, moved or locked file, or content that
\* is no workbook, throws into the catch block.
readFile(i) ==
  /\ i \in 1..Len(cycles) /\ cycles[i].pc = "read"
  /\ \E outcome \in {"ok", "throw"} :
       LET c    == [cycles[i] EXCEPT !.nRead = @ + 1, !.readSeq = Len(commitLog)]
           wb   == file[c.kind]
           plan == PlanOf(c, wb)
           c1   == [c EXCEPT !.wb = wb, !.sheetName = plan.sheetName,
                             !.rowIndex = plan.rowIndex]
           r    == IF plan.alert # "" THEN LocateFailed(c1, wb, plan)
                   ELSE [cycle |-> [c1 EXCEPT !.pc = "createWritable", !.out = plan.out],
                         content |-> wb]
       IN IF outcome = "throw" \/ ~wb.valid
          THEN Step(i, Fail(c, "Caught", "read"), wb, commitLog)
          ELSE Step(i, r.cycle, r.content, commitLog)

\* await fileHandle.createWritable(): a fresh swap file; the resource itself
\* is untouched until close.
createWritable(i) ==
  /\ i \in 1..Len(cycles) /\ cycles[i].pc = "createWritable"
  /\ \E outcome \in {"ok", "throw"} :
       LET c == [cycles[i] EXCEPT !.nCreateWritable = @ + 1]
       IN Step(i,
               IF outcome = "ok" THEN [c EXCEPT !.pc = "write", !.swap = "open"]
               ELSE Fail(c, "Caught", "createWritable"),
               file[c.kind], commitLog)

\* Mutant: the torn swap file is closed (committed) on the failure path.
WriteFailedClosesWritable(c, content) ==
  [cycle |-> Fail([c EXCEPT !.swap = "torn"], "Caught", "write"), content |-> Torn]

\* writable.write(outBuffer) failed part way: the swap file is torn, the
\* catch block returns false and the writable is never closed.
WriteFailed(c, content) ==
  [cycle |-> Fail([c EXCEPT !.swap = "torn"], "Caught", "write"), content |-> content]

\* await writable.write(outBuffer)
write(i) ==
  /\ i \in 1..Len(cycles) /\ cycles[i].pc = "write"
  /\ \E outcome \in {"ok", "throw"} :
       LET c == [cycles[i] EXCEPT !.nWrite = @ + 1]
           r == IF outcome = "ok"
                THEN [cycle |-> [c EXCEPT !.pc = "close", !.swap = "full"],
                      content |-> file[c.kind]]
                ELSE WriteFailed(c, file[c.kind])
       IN Step(i, r.cycle, r.content, commitLog)

\* Mutant: the cycle's change is applied to the resource's content at close
\* time (a read-modify-write under a lock) instead of to the content it read.
CommittedOnCurrent(c, content) == PlanOf(c, content).out

\* What a successful close puts in place of the resource: the swap file, which
\* holds the buffer serialized from the workbook the cycle read.
Committed(c, content) == IF c.swap = "full" THEN c.out ELSE Torn

\* await writable.close(): the swap file replaces the resource at once, or the
\* close fails and the resource keeps its content.
close(i) ==
  /\ i \in 1..Len(cycles) /\ cycles[i].pc = "close"
  /\ \E outcome \in {"ok", "throw"} :
       LET c == [cycles[i] EXCEPT !.nClose = @ + 1]
       IN IF outcome = "ok"
          THEN Step(i, [c EXCEPT !.pc = "done", !.result = "SUCCESS"],
                    Committed(c, file[c.kind]), Append(commitLog, i))
          ELSE Step(i, Fail(c, "Caught", "close"), file[c.kind], commitLog)

Next ==
  \/ handleUpdateExcel
  \/ handleUpdateHold
  \/ handleUpdateRM
  \/ \E i \in 1..MaxCycles : getMasterHandle(i)
  \/ \E i \in 1..MaxCycles : queryPermission(i)
  \/ \E i \in 1..MaxCycles : requestPermission(i)
  \/ \E i \in 1..MaxCycles : readFile(i)
  \/ \E i \in 1..MaxCycles : createWritable(i)
  \/ \E i \in 1..MaxCycles : write(i)
  \/ \E i \in 1..MaxCycles : close(i)

Spec == Init /\ [][Next]_vars

\* The steps of cycle i: each awaited I/O call returns or fails.
CycleStep(i) ==
  \/ getMasterHandle(i)
  \/ queryPermission(i)
  \/ requestPermission(i)
  \/ readFile(i)
  \/ createWritable(i)
  \/ write(i)
  \/ close(i)

\* Every awaited I/O call of every cycle eventually returns or fails.
FairSpec == Spec /\ \A i \in 1..MaxCycles : WF_vars(CycleStep(i))

\* ------------------------------------------------- the search panel's steps
\* The application after start-up, with the stored tables and the stored
\* profile loaded, the config effect run, and no file linked for update.
SearchInit ==
  /\ file = [k \in Kinds |-> WbEntries]
  /\ cycles = <<>>
  /\ commitLog = <<>>
  /\ isUpdating = FALSE
  /\ updateMsg = "null"
  /\ mid = EMPTY
  /\ formData = <<>>
  /\ manualEntries = <<>>
  /\ databases \in DatabaseLists
  /\ activeProfile \in Profiles
  /\ dbConfigs = NewConfigs(databases, activeProfile)
  /\ midSuggestions = <<>>
  /\ nameSuggestions = <<>>
  /\ scanned = <<>>
  /\ picked = <<>>
  /\ holdForm = BlankHoldForm(activeProfile)
  /\ entrySuggestions = <<>>
  /\ chosen = <<>>
  /\ input = NULL
  /\ output = NULL
  /\ applied = "none"
  /\ configTargetDb = TargetAfter(EMPTY, databases)
  /\ profileStore = StoreOf(activeProfile)
  /\ saves = <<>>
  /\ overridden = <<>>
  /\ savedData = databases
  /\ activeProfileId = activeProfile.id
  /\ importRun = NoImport
  /\ stateQueue = <<>>
  /\ pendingOps = <<>>

\* SearchPanel.handleMidChange(val)
\* Mutant: the form is kept when the search finds nothing.
MidChangeKeepsForm(val) ==
  LET found == searchRecords(databases, dbConfigs, val, "mid")
  IN /\ mid' = val
     /\ midSuggestions' = found.results
     /\ scanned' = found.scanned
     /\ databases' = AfterSearch(databases, found)
     /\ formData' = formData
     /\ picked' = <<>>
     /\ UNCHANGED <<otherVars, cycleVars, manualEntries, activeProfile, dbConfigs,
                    nameSuggestions, holdForm, entrySuggestions, chosen>>

\* The body of handleMidChange for the value val
MidChangeTo(val) ==
  LET found == searchRecords(databases, dbConfigs, val, "mid")
  IN /\ mid' = val
     /\ midSuggestions' = found.results
     /\ scanned' = found.scanned
     /\ databases' = AfterSearch(databases, found)
     /\ formData' = IF Len(found.results) = 0 THEN <<>> ELSE formData
     /\ picked' = <<>>
     /\ UNCHANGED <<otherVars, cycleVars, manualEntries, activeProfile, dbConfigs,
                    nameSuggestions, holdForm, entrySuggestions, chosen>>

handleMidChange == \E val \in MidQueries : MidChangeTo(val)

\* SearchPanel.handleNameChange(val)
handleNameChange ==
  \E val \in NameQueries :
    LET found == searchRecords(databases, dbConfigs, val, "name")
    IN /\ formData' = Put(formData, sMerchantName, val)
       /\ picked' = <<>>
       /\ nameSuggestions' = found.results
       /\ scanned' = found.scanned
       /\ databases' = AfterSearch(databases, found)
       /\ UNCHANGED <<otherVars, cycleVars, mid, manualEntries, activeProfile, dbConfigs,
                      midSuggestions, holdForm, entrySuggestions, chosen>>

\* SearchPanel.handleSelectRecord(record), for a record of either suggestion
\* list.  Every suggestion comes from a table that has a config.
handleSelectRecord ==
  \E list \in {midSuggestions, nameSuggestions} :
    \E k \in 1..Len(list) :
      LET record == list[k]
          config == Get(dbConfigs, Get(record, s__sourceFile))
      IN /\ Has(dbConfigs, Get(record, s__sourceFile))
         /\ mid' = CellText(record, config.midCol)
         /\ formData' = SelectedForm(record, config, activeProfile)
         /\ midSuggestions' = <<>>
         /\ nameSuggestions' = <<>>
         /\ updateMsg' = "null"
         /\ picked' = record
         /\ UNCHANGED <<otherVars, file, cycles, commitLog, isUpdating, manualEntries, databases,
                        activeProfile, dbConfigs, scanned, holdForm, entrySuggestions, chosen>>

\* AddManualEntry.handleMidSearch(val) on the Hold tab
handleMidSearch ==
  \E val \in EntryQueries :
    /\ holdForm' = [holdForm EXCEPT !.mid = val]
    /\ entrySuggestions' = searchDatabases(databases, val, "mid")
    /\ chosen' = <<>>
    /\ UNCHANGED <<otherVars, cycleVars, mid, formData, manualEntries, databases, activeProfile,
                   dbConfigs, midSuggestions, nameSuggestions, scanned, picked>>

\* AddManualEntry: a suggestion is clicked (populateFields) on the Hold tab
selectSuggestion ==
  \E k \in 1..Len(entrySuggestions) :
    /\ holdForm' = populateFields(databases, entrySuggestions[k], holdForm, activeProfile)
    /\ entrySuggestions' = <<>>
    /\ chosen' = entrySuggestions[k]
    /\ UNCHANGED <<otherVars, cycleVars, mid, formData, manualEntries, databases, activeProfile,
                   dbConfigs, midSuggestions, nameSuggestions, scanned, picked>>

\* AddManualEntry.handleHoldSubmit and App.handleManualEntrySave: the record
\* joins the virtual table, the new table list is persisted, the config
\* effect runs for it and the form is reset.
handleHoldSubmit ==
  /\ holdForm.mid # EMPTY
  /\ holdForm.name # EMPTY
  /\ Len(manualEntries) < MaxSaves
  /\ databases' = SavedManualEntry(databases, HoldRecord(holdForm))
  /\ manualEntries' = Append(manualEntries, HoldRecord(holdForm))
  /\ savedData' = databases'
  /\ dbConfigs' = NewConfigs(databases', activeProfile)
  /\ configTargetDb' = TargetAfter(configTargetDb, databases')
  /\ holdForm' = BlankHoldForm(activeProfile)
  /\ chosen' = <<>>
  /\ UNCHANGED <<pureVars, profileStore, saves, overridden, activeProfileId, importRun,
                 queueVars, cycleVars, mid, formData, activeProfile, midSuggestions,
                 nameSuggestions, scanned, picked, entrySuggestions>>

SearchNext ==
  \/ handleMidChange
  \/ handleNameChange
  \/ handleSelectRecord
  \/ handleMidSearch
  \/ selectSuggestion
  \/ handleHoldSubmit

SearchSpec == SearchInit /\ [][SearchNext]_vars

\* ------------------------------------------------------- helper functions
\* The application with nothing loaded, no update under way and empty inputs
AppIdle ==
  /\ file = [k \in Kinds |-> WbEntries]
  /\ cycles = <<>>
  /\ commitLog = <<>>
  /\ isUpdating = FALSE
  /\ updateMsg = "null"
  /\ mid = EMPTY
  /\ formData = <<>>
  /\ manualEntries = <<>>
  /\ PanelIdle
  /\ ConfigIdle
  /\ StoreIdle

\* The characters keys are made of: letters of both cases, a digit, a blank,
\* punctuation, and characters outside ASCII.
KeyChars == {"M", "i", "7", " ", "_", "U+00C9", "U+0130", "U+212A"}

\* normalizeKey is handed undefined or null (a missing cell) or ''.
NormalizeInit ==
  /\ AppIdle
  /\ input \in {NULL, EMPTY}
  /\ output = NULL
  /\ applied = "none"

\* The argument grows by one character.
LongerKey ==
  /\ Len(IF input = NULL THEN EMPTY ELSE input) < MaxKeyLen
  /\ \E c \in KeyChars : input' = Append(IF input = NULL THEN EMPTY ELSE input, c)
  /\ output' = NULL
  /\ applied' = "none"
  /\ UNCHANGED <<cycleVars, mid, formData, manualEntries, panelVars, configVars, storeVars, queueVars>>

\* normalizeKey(input)
applyNormalizeKey ==
  /\ output' = normalizeKey(input)
  /\ applied' = "normalizeKey"
  /\ UNCHANGED <<cycleVars, mid, formData, manualEntries, panelVars, configVars, storeVars, queueVars,
                 input>>

\* The key normalizeKey returned is its next argument, as when a normalized
\* identifier is normalized again before a comparison.
NormalizedAgain ==
  /\ applied = "normalizeKey"
  /\ input' = output
  /\ output' = NULL
  /\ applied' = "none"
  /\ UNCHANGED <<cycleVars, mid, formData, manualEntries, panelVars, configVars, storeVars, queueVars>>

\* The alias strings of the static tables: the candidates of findMidColumn
\* and findNameColumn and the lists of FIELD_MAPPINGS.
StaticAliases ==
  MidCandidateSet \cup NameCandidateSet
    \cup UNION {Range(FIELD_MAPPINGS[i][2]) : i \in 1..Len(FIELD_MAPPINGS)}

\* A column header spelled as one of the aliases is the argument.
HeaderSpelledAsAlias ==
  /\ \E a \in StaticAliases : input' = a
  /\ output' = NULL
  /\ applied' = "none"
  /\ UNCHANGED <<cycleVars, mid, formData, manualEntries, panelVars, configVars, storeVars, queueVars>>

NormalizeNext ==
  LongerKey \/ applyNormalizeKey \/ NormalizedAgain \/ HeaderSpelledAsAlias

NormalizeSpec == NormalizeInit /\ [][NormalizeNext]_vars

\* Date cells as text: ISO dates (one in a leap February, one with a month
\* and day no calendar has), month-name dates (padded and not, upper case, a
\* day the month lacks, an unknown name), a US date, text with blanks around.
DateTexts ==
  { <<"2","0","2","4","-","0","3","-","0","5">>,
    <<"2","0","2","4","-","0","2","-","2","9">>,
    <<"1","9","9","9","-","1","3","-","4","5">>,
    <<" ","2","0","2","4","-","1","2","-","3","1"," ">>,
    <<"M","a","r","/","5","/","2","0","2","4">>,
    <<"D","E","C","/","3","1","/","1","9","9","9">>,
    <<"f","e","b","/","0","9","/","2","0","2","4">>,
    <<"F","e","b","/","3","0","/","2","0","2","4">>,
    <<"A","b","c","/","5","/","2","0","2","4">>,
    <<"0","3","/","0","5","/","2","0","2","4">>,
    <<" ","T","B","D","\t">>,
    <<" ">>,
    EMPTY }

\* The digits numerals are typed with
SerialDigits == {"0", "1", "3", "5", "6", "9"}

\* parseExcelDate is handed a missing cell or a text cell.
DateInit ==
  /\ AppIdle
  /\ input \in {NULL} \cup DateTexts
  /\ output = NULL
  /\ applied = "none"

\* A numeric cell: the numeral grows by one digit.
LongerNumeral ==
  /\ input # NULL
  /\ (input = EMPTY \/ IsNumeral(input))
  /\ Len(input) < MaxSerialLen
  /\ \E c \in SerialDigits :
       /\ (c # "0" \/ input # EMPTY)
       /\ input' = Append(input, c)
  /\ output' = NULL
  /\ applied' = "none"
  /\ UNCHANGED <<cycleVars, mid, formData, manualEntries, panelVars, configVars, storeVars, queueVars>>

\* parseExcelDate(input), in any zone and engine
applyParseExcelDate ==
  /\ \E env \in Environments : output' = parseExcelDateIn(input, env)
  /\ applied' = "parseExcelDate"
  /\ UNCHANGED <<cycleVars, mid, formData, manualEntries, panelVars, configVars, storeVars, queueVars,
                 input>>

DateNext == LongerNumeral \/ applyParseExcelDate

DateSpec == DateInit /\ [][DateNext]_vars

\* ------------------------------------------------------- mapping overrides
\* Most overrides made in one run
MaxOverrides == 3

\* The form fields whose mapping is changed
OverrideFields == {sCurrentStatus, sHeldBy}

\* The options of a field's select that are chosen: the first two columns of
\* the table being configured
ColumnOptions(dbs, fileName) ==
  { ColumnAt(db.columns, i) : db \in { d \in Range(dbs) : d.fileName = fileName },
                              i \in 1..2 }

\* The tables are loaded, a stored profile is active, the config effect has
\* run and made the first table the one being configured.
MappingInit ==
  /\ file = [k \in Kinds |-> WbEntries]
  /\ cycles = <<>>
  /\ commitLog = <<>>
  /\ isUpdating = FALSE
  /\ updateMsg = "null"
  /\ mid = EMPTY
  /\ formData = <<>>
  /\ manualEntries = <<>>
  /\ databases = <<TblHoldJan, TblRMMaster>>
  /\ activeProfile \in Profiles \ {NoProfile}
  /\ dbConfigs = NewConfigs(databases, activeProfile)
  /\ midSuggestions = <<>>
  /\ nameSuggestions = <<>>
  /\ scanned = <<>>
  /\ picked = <<>>
  /\ holdForm = BlankHoldForm(activeProfile)
  /\ entrySuggestions = <<>>
  /\ chosen = <<>>
  /\ input = NULL
  /\ output = NULL
  /\ applied = "none"
  /\ configTargetDb = TargetAfter(EMPTY, databases)
  /\ profileStore = StoreOf(activeProfile)
  /\ saves = <<>>
  /\ overridden = <<>>
  /\ savedData = databases
  /\ activeProfileId = activeProfile.id
  /\ importRun = NoImport
  /\ stateQueue = <<>>
  /\ pendingOps = <<>>

mappingFrame ==
  <<cycleVars, mid, formData, manualEntries, databases, midSuggestions,
    nameSuggestions, scanned, picked, holdForm, entrySuggestions, chosen, pureVars,
    storeVars, queueVars>>

\* The "Configuring:" select: setConfigTargetDb(e.target.value)
selectConfigTarget ==
  /\ \E db \in Range(databases) :
       /\ db.fileName # configTargetDb
       /\ configTargetDb' = db.fileName
  /\ UNCHANGED <<mappingFrame, activeProfile, dbConfigs, profileStore, saves, overridden>>

\* updateMapping(field, column) up to its await: the table's config gets the
\* new mappings, and with an active profile the save of the profile with
\* these mappings under the table's name is started.
updateMapping ==
  /\ Len(overridden) < MaxOverrides
  /\ configTargetDb # EMPTY
  /\ Has(dbConfigs, configTargetDb)
  /\ \E field \in OverrideFields, column \in ColumnOptions(databases, configTargetDb) :
       LET currentConfig == Get(dbConfigs, configTargetDb)
           newMappings   == Put(currentConfig.mappings, field, column)
           updatedProfile ==
             [activeProfile EXCEPT
                !.mappings = Put(activeProfile.mappings, configTargetDb, newMappings)]
       IN /\ dbConfigs' = Put(dbConfigs, configTargetDb,
                              [currentConfig EXCEPT !.mappings = newMappings])
          /\ saves' = IF activeProfile.id # NULL
                      THEN Append(saves, [profile |-> updatedProfile, saved |-> FALSE])
                      ELSE saves
          /\ overridden' = Append(overridden,
                                 [table |-> configTargetDb, field |-> field,
                                  column |-> column, underWay |-> Len(saves)])
  /\ UNCHANGED <<mappingFrame, activeProfile, configTargetDb, profileStore>>

\* The oldest save not yet completed
NextSave == CHOOSE i \in 1..Len(saves) :
              ~saves[i].saved /\ \A j \in 1..(i - 1) : saves[j].saved

\* saveUserProfile's put succeeds: the store holds the call's profile.
profileSaved ==
  /\ \E i \in 1..Len(saves) : ~saves[i].saved
  /\ profileStore' = PutProfile(profileStore, saves[NextSave].profile)
  /\ saves' = [saves EXCEPT ![NextSave].saved = TRUE]
  /\ UNCHANGED <<mappingFrame, activeProfile, dbConfigs, configTargetDb, overridden>>

\* updateMapping after its await: onUpdateProfile(updatedProfile) makes the
\* call's profile the active one, and the config effect, which depends on
\* activeProfile, computes every table's config anew.
profileRefreshed ==
  /\ saves # <<>>
  /\ Head(saves).saved
  /\ activeProfile' = IF activeProfile.id = Head(saves).profile.id
                      THEN Head(saves).profile ELSE activeProfile
  /\ dbConfigs' = NewConfigs(databases, activeProfile')
  /\ saves' = Tail(saves)
  /\ UNCHANGED <<mappingFrame, configTargetDb, profileStore, overridden>>

MappingNext ==
  \/ selectConfigTarget
  \/ updateMapping
  \/ profileSaved
  \/ profileRefreshed

MappingSpec == MappingInit /\ [][MappingNext]_vars

\* ---------------------------------------------------------- loaded tables
\* Most tables handed to handleDataLoaded at once
MaxBatch == 2

\* Manual entries saved while tables are loaded and removed
MaxEntrySaves == 2

\* Another workbook named like the January Hold file
TblHoldJanAgain == Table(sHoldJan, TblHoldFeb.columns, TblHoldFeb.data)

\* The parsed files handed to handleDataLoaded
Loadables == {TblHoldJan, TblRMMaster, TblHoldJanAgain}

\* handleDataLoaded's argument: one table (a URL load) or an array (the
\* files picked in the file input)
Loads ==
  [array : {FALSE}, items : { <<t>> : t \in Loadables }]
    \cup [array : {TRUE},
          items : UNION { [1..n -> Loadables] : n \in 1..MaxBatch }]

\* The records saved as manual entries
EntryRecords ==
  { HoldRecord([mid |-> vM100, name |-> vAcme, currentStatus |-> vActive,
                heldBy |-> EMPTY]),
    << <<sOrgMID, vM200>>, <<sRM, vJo>> >> }

\* The application as started, with nothing persisted
LoadInit ==
  /\ AppIdle
  /\ HelpersIdle

loadFrame ==
  <<cycleVars, mid, formData, activeProfile, midSuggestions, nameSuggestions,
    scanned, picked, holdForm, entrySuggestions, chosen, pureVars, profileStore,
    saves, overridden, activeProfileId, importRun, queueVars>>

\* setDatabases(updated) with persistDatabases(updated), and the config
\* effect that follows a change of the table list
TablesBecome(updated) ==
  /\ databases' = updated
  /\ savedData' = updated
  /\ dbConfigs' = NewConfigs(updated, activeProfile)
  /\ configTargetDb' = TargetAfter(configTargetDb, updated)

\* App.handleDataLoaded(data): the items whose name is not loaded yet are
\* appended; when none is left nothing changes.
handleDataLoaded ==
  \E load \in Loads :
    LET newItems     == load.items
        currentNames == { db.fileName : db \in Range(databases) }
        filteredNew  == SelectSeq(newItems, LAMBDA item : item.fileName \notin currentNames)
    IN /\ filteredNew # <<>>
       /\ TablesBecome(databases \o filteredNew)
       /\ UNCHANGED <<loadFrame, manualEntries>>

\* App.handleRemoveDatabase(fileName), confirmed
handleRemoveDatabase ==
  \E db \in Range(databases) :
    /\ TablesBecome(SelectSeq(databases, LAMBDA d : d.fileName # db.fileName))
    /\ UNCHANGED <<loadFrame, manualEntries>>

\* App.handleClearAll, confirmed: setDatabases([]) and clearDatabase()
handleClearAll ==
  /\ databases # <<>>
  /\ TablesBecome(<<>>)
  /\ UNCHANGED <<loadFrame, manualEntries>>

\* App.handleManualEntrySave(type, data)
handleManualEntrySave ==
  /\ Len(manualEntries) < MaxEntrySaves
  /\ \E data \in EntryRecords :
       /\ TablesBecome(SavedManualEntry(databases, data))
       /\ manualEntries' = Append(manualEntries, data)
  /\ UNCHANGED loadFrame

LoadNext ==
  \/ handleDataLoaded
  \/ handleRemoveDatabase
  \/ handleClearAll
  \/ handleManualEntrySave

LoadSpec == LoadInit /\ [][LoadNext]_vars

\* ------------------------------------------------ search panel and update
\* A query made of punctuation only
qDashes == <<"-","-">>

\* The values typed into the panel's MID input: the identifiers of two
\* rows, of no row, and punctuation
TypedMids == {vM100, vM200, vM999, qDashes}

\* The Hold table and a master table are loaded with no profile, the linked
\* Hold workbook holds the same merchants, and the panel is as mounted.
PanelInit ==
  /\ file = [k \in Kinds |-> IF k = "HOLD" THEN WbHold ELSE WbEntries]
  /\ cycles = <<>>
  /\ commitLog = <<>>
  /\ isUpdating = FALSE
  /\ updateMsg = "null"
  /\ mid = EMPTY
  /\ formData = <<>>
  /\ manualEntries = <<>>
  /\ databases = <<TblHoldJan, TblRMMaster>>
  /\ activeProfile = NoProfile
  /\ dbConfigs = NewConfigs(databases, activeProfile)
  /\ midSuggestions = <<>>
  /\ nameSuggestions = <<>>
  /\ scanned = <<>>
  /\ picked = <<>>
  /\ holdForm = BlankHoldForm(activeProfile)
  /\ entrySuggestions = <<>>
  /\ chosen = <<>>
  /\ input = NULL
  /\ output = NULL
  /\ applied = "none"
  /\ configTargetDb = TargetAfter(EMPTY, databases)
  /\ profileStore = <<>>
  /\ saves = <<>>
  /\ overridden = <<>>
  /\ savedData = databases
  /\ activeProfileId = NULL
  /\ importRun = NoImport
  /\ stateQueue = <<>>
  /\ pendingOps = <<>>

\* SearchPanel.handleMidChange(val) for the values typed here
handleMidTyped == \E val \in TypedMids : MidChangeTo(val)

\* The Reset button: setMid(''), setFormData({}), setUpdateMsg(null)
resetPanel ==
  /\ mid # EMPTY \/ formData # <<>>
  /\ mid' = EMPTY
  /\ formData' = <<>>
  /\ updateMsg' = "null"
  /\ UNCHANGED <<otherVars, file, cycles, commitLog, isUpdating, manualEntries, panelVars>>

PanelNext ==
  \/ handleMidTyped
  \/ handleNameChange
  \/ handleSelectRecord
  \/ resetPanel
  \/ handleRemoveDatabase
  \/ handleUpdateExcel

\* The panel up to the submission of an update: the cycle that
\* handleUpdateExcel starts is followed from its first await on in Spec,
\* whose steps leave the panel's MID, form and tables alone.
PanelSpec == PanelInit /\ [][PanelNext]_vars

\* ------------------------------------------------- update by an empty key
\* A Hold workbook whose first row has a blank identifier cell and whose
\* second and third rows share one identifier.
WbBlankId ==
  WB(<<sHold>>,
     <<WS(<<sMID, sStatus, sHeld_By>>,
          <<<<EMPTY, vOpen, vA>>, <<vM100, vOpen, vB>>, <<vM100, vOpen, vB>>>>)>>)

\* The panel holds a MID made of punctuation or the identifier of two rows,
\* and a form with a new status; manual entries are queued.
KeyInit ==
  /\ file = [k \in Kinds |-> IF k = "HOLD" THEN WbBlankId ELSE WbEntries]
  /\ cycles = <<>>
  /\ commitLog = <<>>
  /\ isUpdating = FALSE
  /\ updateMsg = "null"
  /\ mid \in {qDashes, vM100}
  /\ formData = <<<<sCurrentStatus, vClosed>>>>
  /\ manualEntries = <<HoldEntry(vM300, vAcme), RmEntry(vM300, vAcme)>>
  /\ PanelIdle
  /\ HelpersIdle

KeySpec == KeyInit /\ [][Next]_vars

\* ------------------------------------------- identifier and name columns
\* The Hold table is loaded with no profile and is the table being
\* configured.
IdColInit ==
  /\ file = [k \in Kinds |-> WbEntries]
  /\ cycles = <<>>
  /\ commitLog = <<>>
  /\ isUpdating = FALSE
  /\ updateMsg = "null"
  /\ mid = EMPTY
  /\ formData = <<>>
  /\ manualEntries = <<>>
  /\ databases = <<TblHoldJan>>
  /\ activeProfile = NoProfile
  /\ dbConfigs = NewConfigs(databases, activeProfile)
  /\ midSuggestions = <<>>
  /\ nameSuggestions = <<>>
  /\ scanned = <<>>
  /\ picked = <<>>
  /\ holdForm = BlankHoldForm(activeProfile)
  /\ entrySuggestions = <<>>
  /\ chosen = <<>>
  /\ input = NULL
  /\ output = NULL
  /\ applied = "none"
  /\ configTargetDb = TargetAfter(EMPTY, databases)
  /\ profileStore = <<>>
  /\ saves = <<>>
  /\ overridden = <<>>
  /\ savedData = databases
  /\ activeProfileId = NULL
  /\ importRun = NoImport
  /\ stateQueue = <<>>
  /\ pendingOps = <<>>

\* The table's config with the column col as its identifier column or its
\* name column
WithIdCol(config, type, col) ==
  IF type = "mid" THEN [config EXCEPT !.midCol = col] ELSE [config EXCEPT !.nameCol = col]

\* SearchPanel.updateIdCols(type, col), for an option of the select of the
\* table being configured (the select is shown when the table has a config)
updateIdCols ==
  /\ configTargetDb # EMPTY
  /\ Has(dbConfigs, configTargetDb)
  /\ \E type \in {"mid", "name"}, col \in ColumnOptions(databases, configTargetDb) :
       /\ WithIdCol(Get(dbConfigs, configTargetDb), type, col) # Get(dbConfigs, configTargetDb)
       /\ dbConfigs' = Put(dbConfigs, configTargetDb,
                           WithIdCol(Get(dbConfigs, configTargetDb), type, col))
  /\ UNCHANGED <<mappingFrame, activeProfile, configTargetDb, profileStore, saves, overridden>>

IdColNext ==
  \/ updateIdCols
  \/ selectConfigTarget
  \/ handleDataLoaded
  \/ handleRemoveDatabase

IdColSpec == IdColInit /\ [][IdColNext]_vars

\* ---------------------------------------------------- header-row detection
\* The rows processWorkbook scans for a header
HeaderScanCap == 20

\* Most rows of a sheet built row by row
MaxSheetRows == 3

\* The normalized cells that make a row the header row (processWorkbook)
HeaderTokens ==
  { <<"m","e","r","c","h","a","n","t","i","d">>, <<"m","i","d">>,
    <<"m","e","r","c","h","a","n","t","n","a","m","e">>, <<"r","m","n","a","m","e">>,
    <<"s","t","a","t","u","s">>, <<"a","c","c","o","u","n","t","i","d">>,
    <<"o","r","g","m","i","d">>, <<"d","a","t","e","o","f","h","o","l","d">>}

\* headerRowIndex of processWorkbook for the raw rows of the first sheet,
\* counted from 0: the first of the first HeaderScanCap rows with a cell whose
\* normalized text is a header token, else 0.
HeaderRowIndex(rawRows) ==
  LET last == IF Len(rawRows) < HeaderScanCap THEN Len(rawRows) ELSE HeaderScanCap
      i    == FindIndex(SubSeq(rawRows, 1, last),
                {row \in Range(SubSeq(rawRows, 1, last)) :
                   \E c \in 1..Len(row) : normalizeKey(row[c]) \in HeaderTokens})
  IN IF i = 0 THEN 0 ELSE i - 1

sReport == <<"R","e","p","o","r","t">>
sID == <<"I","D">>

\* Rows of a sheet: a title, headers of two identifier and name spellings,
\* a header with neither, and a data row
SheetRows ==
  { <<sReport, EMPTY>>, <<sID, sName>>, <<sMID, sStatus>>, <<sStatus, sNotes>>,
    <<vM100, vAcme>> }

\* A sheet whose header is its row n, under data rows
TallSheet(n) == [i \in 1..n |-> IF i = n THEN <<sMID, sName>> ELSE <<vM100, vAcme>>]

\* The raw rows of the first sheet of the workbook being parsed
HeaderInit ==
  /\ AppIdle
  /\ input \in UNION { [1..n -> SheetRows] : n \in 0..MaxSheetRows }
                 \cup {TallSheet(HeaderScanCap), TallSheet(HeaderScanCap + 1)}
  /\ output = NULL
  /\ applied = "none"

\* processWorkbook up to the header row: the index found for the raw rows
applyHeaderRowIndex ==
  /\ applied = "none"
  /\ output' = <<HeaderRowIndex(input)>>
  /\ applied' = "headerRow"
  /\ UNCHANGED <<cycleVars, mid, formData, manualEntries, panelVars, configVars, storeVars, queueVars,
                 input>>

HeaderNext == applyHeaderRowIndex

HeaderSpec == HeaderInit /\ [][HeaderNext]_vars

\* ------------------------------------------- persistence of the table list
\* Most updates of the table list queued and not yet rendered
MaxQueued == 1

\* Most store operations under way
MaxPending == 2

\* The tables handed to handleDataLoaded one at a time
PersistLoads == {TblHoldJan, TblRMMaster}

\* A queued update of the table list: the updater of handleDataLoaded,
\* handleRemoveDatabase or handleManualEntrySave, or the value [] of
\* handleClearAll
LoadUpdate(item) == [op |-> "load", item |-> item, fileName |-> EMPTY, data |-> <<>>]
RemoveUpdate(fileName) == [op |-> "remove", item |-> <<>>, fileName |-> fileName, data |-> <<>>]
EntryUpdate(data) == [op |-> "entry", item |-> <<>>, fileName |-> EMPTY, data |-> data]
ClearUpdate == [op |-> "clear", item |-> <<>>, fileName |-> EMPTY, data |-> <<>>]

\* What the update makes of the table list prev
Updated(prev, u) ==
  IF u.op = "load"
    THEN IF \E db \in Range(prev) : db.fileName = u.item.fileName
         THEN prev ELSE Append(prev, u.item)
  ELSE IF u.op = "remove"
    THEN SelectSeq(prev, LAMBDA d : d.fileName # u.fileName)
  ELSE IF u.op = "entry"
    THEN SavedManualEntry(prev, u.data)
  ELSE <<>>

\* The updater calls persistDatabases(updated): always but for a load that
\* adds nothing and for the plain value of handleClearAll.
Persists(prev, u) ==
  IF u.op = "load" THEN \A db \in Range(prev) : db.fileName # u.item.fileName
  ELSE u.op # "clear"

\* saveDatabase(data) and clearDatabase() as operations on the store
PutOp(data) == [op |-> "put", data |-> data]
DeleteOp == [op |-> "delete", data |-> <<>>]

\* A render of App: the queued updates are applied in order to the table
\* list, and each updater starts its save when it is called.
RECURSIVE Rendered(_, _, _)
Rendered(queue, dbs, ops) ==
  IF queue = <<>> THEN [dbs |-> dbs, ops |-> ops]
  ELSE LET u       == Head(queue)
           updated == Updated(dbs, u)
       IN Rendered(Tail(queue), updated,
                   IF Persists(dbs, u) THEN Append(ops, PutOp(updated)) ELSE ops)

\* The render's outcome becomes the state, and the config effect follows
\* the change of the table list.
RenderedState(r) ==
  /\ databases' = r.dbs
  /\ pendingOps' = r.ops
  /\ stateQueue' = <<>>
  /\ dbConfigs' = NewConfigs(r.dbs, activeProfile)
  /\ configTargetDb' = TargetAfter(configTargetDb, r.dbs)

persistFrame ==
  <<cycleVars, mid, formData, activeProfile, midSuggestions, nameSuggestions,
    scanned, picked, holdForm, entrySuggestions, chosen, pureVars, profileStore,
    saves, overridden, activeProfileId, importRun>>

\* The application as started, with nothing persisted
PersistInit ==
  /\ AppIdle
  /\ HelpersIdle

\* App.handleDataLoaded(data), called by FileUpload after its awaits: the
\* updater is queued with setDatabases and is called at the next render.
dataLoadedQueued ==
  /\ Len(stateQueue) < MaxQueued
  /\ \E item \in PersistLoads : stateQueue' = Append(stateQueue, LoadUpdate(item))
  /\ UNCHANGED <<persistFrame, manualEntries, databases, dbConfigs, configTargetDb,
                 savedData, pendingOps>>

\* The render that React scheduled for the queued updates
renderDatabases ==
  /\ stateQueue # <<>>
  /\ Len(pendingOps) < MaxPending
  /\ RenderedState(Rendered(stateQueue, databases, pendingOps))
  /\ UNCHANGED <<persistFrame, manualEntries, savedData>>

\* App.handleRemoveDatabase(fileName), confirmed, in a click: its updater
\* is queued and the render at the end of the event applies the queue.
removeDatabaseClicked ==
  /\ Len(pendingOps) < MaxPending
  /\ \E db \in Range(databases) :
       RenderedState(Rendered(Append(stateQueue, RemoveUpdate(db.fileName)),
                              databases, pendingOps))
  /\ UNCHANGED <<persistFrame, manualEntries, savedData>>

\* App.handleClearAll, confirmed, in a click: setDatabases([]) is queued,
\* clearDatabase() is started, and the render at the end of the event
\* applies the queue.
clearAllClicked ==
  /\ Len(pendingOps) < MaxPending
  /\ databases # <<>>
  /\ RenderedState(Rendered(Append(stateQueue, ClearUpdate),
                            databases, Append(pendingOps, DeleteOp)))
  /\ UNCHANGED <<persistFrame, manualEntries, savedData>>

\* App.handleManualEntrySave(type, data), in a submit: its updater is
\* queued and the render at the end of the event applies the queue.
manualEntrySubmitted ==
  /\ Len(pendingOps) < MaxPending
  /\ Len(manualEntries) < MaxSaves
  /\ \E data \in EntryRecords :
       /\ RenderedState(Rendered(Append(stateQueue, EntryUpdate(data)),
                                 databases, pendingOps))
       /\ manualEntries' = Append(manualEntries, data)
  /\ UNCHANGED <<persistFrame, savedData>>

\* The oldest store operation completes: the connections are opened and
\* the readwrite transactions on the one store run in the order in which
\* they were asked for.
storeOpDone ==
  /\ pendingOps # <<>>
  /\ savedData' = IF Head(pendingOps).op = "put" THEN Head(pendingOps).data ELSE <<>>
  /\ pendingOps' = Tail(pendingOps)
  /\ UNCHANGED <<persistFrame, manualEntries, databases, dbConfigs, configTargetDb,
                 stateQueue>>

PersistNext ==
  \/ dataLoadedQueued
  \/ renderDatabases
  \/ removeDatabaseClicked
  \/ clearAllClicked
  \/ manualEntrySubmitted
  \/ storeOpDone

PersistSpec == PersistInit /\ [][PersistNext]_vars

\* ---------------------------------------------------- configuration import
\* Most imports made in one run
MaxImports == 2

\* Most entries of a document's profiles array
MaxDocProfiles == 2

\* The entries of a document's profiles array: profile A with other
\* defaults than the stored one, a profile B, and an entry without an id
DocProfileA == UserProfile(<<>>, vB)

DocProfileB == [UserProfile(<<>>, vOps) EXCEPT !.id = vB]

DocProfileNoId == [UserProfile(<<>>, vOps) EXCEPT !.id = NULL]

DocProfiles == {DocProfileA, DocProfileB, DocProfileNoId}

\* The files handed to the import: text that is not JSON, JSON without a
\* profiles member, JSON whose profiles member is not an array, and JSON
\* with a profiles array and an activeProfileId (NULL for none)
Documents ==
  [json : {FALSE}, hasProfiles : {FALSE}, isArray : {FALSE}, profiles : {<<>>},
   activeProfileId : {NULL}]
    \cup [json : {TRUE}, hasProfiles : {FALSE}, isArray : {FALSE}, profiles : {<<>>},
          activeProfileId : {NULL, vA}]
    \cup [json : {TRUE}, hasProfiles : {TRUE}, isArray : {FALSE}, profiles : {<<>>},
          activeProfileId : {NULL, vA}]
    \cup [json : {TRUE}, hasProfiles : {TRUE}, isArray : {TRUE},
          profiles : UNION { [1..n -> DocProfiles] : n \in 0..MaxDocProfiles },
          activeProfileId : {NULL, vA, vB}]

\* JSON.parse succeeds and config.profiles is an array
IsConfigDocument(doc) == doc.json /\ doc.hasProfiles /\ doc.isArray

\* The entries store.put is called with and accepts: those before the first
\* entry without the key path 'id', at which put throws
PutBeforeThrow(profiles) ==
  LET bad == FindIndex(profiles, {q \in Range(profiles) : q.id = NULL})
  IN IF bad = 0 THEN profiles ELSE SubSeq(profiles, 1, bad - 1)

\* for (const profile of config.profiles) store.put(profile)
RECURSIVE PutAll(_, _)
PutAll(store, profiles) ==
  IF profiles = <<>> THEN store
  ELSE PutAll(PutProfile(store, Head(profiles)), Tail(profiles))

\* A profile is stored and active, no table is loaded.
ImportInit ==
  /\ file = [k \in Kinds |-> WbEntries]
  /\ cycles = <<>>
  /\ commitLog = <<>>
  /\ isUpdating = FALSE
  /\ updateMsg = "null"
  /\ mid = EMPTY
  /\ formData = <<>>
  /\ manualEntries = <<>>
  /\ databases = <<>>
  /\ activeProfile \in Profiles
  /\ dbConfigs = <<>>
  /\ midSuggestions = <<>>
  /\ nameSuggestions = <<>>
  /\ scanned = <<>>
  /\ picked = <<>>
  /\ holdForm = BlankHoldForm(activeProfile)
  /\ entrySuggestions = <<>>
  /\ chosen = <<>>
  /\ input = NULL
  /\ output = NULL
  /\ applied = "none"
  /\ configTargetDb = EMPTY
  /\ profileStore = StoreOf(activeProfile)
  /\ saves = <<>>
  /\ overridden = <<>>
  /\ savedData = <<>>
  /\ activeProfileId = activeProfile.id
  /\ importRun = NoImport
  /\ stateQueue = <<>>
  /\ pendingOps = <<>>

\* SystemSettingsModal.handleFileChange with importSystemConfig(json).  The
\* puts made before one throws stay in the transaction, which commits or
\* fails as a whole; the active id is set once every put was accepted,
\* before the transaction is over.  The import fails when it throws or the
\* transaction fails.
importSystemConfig ==
  /\ importRun.nth < MaxImports
  /\ \E doc \in Documents, commits \in BOOLEAN :
       LET accepted == PutBeforeThrow(doc.profiles)
           threw    == ~IsConfigDocument(doc) \/ accepted # doc.profiles
       IN /\ (~IsConfigDocument(doc) => commits)
          /\ profileStore' = IF IsConfigDocument(doc) /\ commits
                             THEN PutAll(profileStore, accepted) ELSE profileStore
          /\ activeProfileId' = IF ~threw /\ doc.activeProfileId # NULL
                                THEN doc.activeProfileId ELSE activeProfileId
          /\ importRun' = [document |-> doc,
                           storeBefore |-> profileStore,
                           idBefore |-> activeProfileId,
                           committed |-> commits,
                           result |-> IF threw \/ ~commits THEN "failed" ELSE "imported",
                           nth |-> importRun.nth + 1]
  /\ UNCHANGED <<cycleVars, mid, formData, manualEntries, panelVars, pureVars,
                 configTargetDb, saves, overridden, savedData, queueVars>>

ImportNext == importSystemConfig

ImportSpec == ImportInit /\ [][ImportNext]_vars

\* ------------------------------------------------------------------ claims
Ids == 1..Len(cycles)

\* The position of cycle i's commit in commitLog, 0 when it never committed.
CommitPos(i) ==
  IF \E p \in 1..Len(commitLog) : commitLog[p] = i
  THEN CHOOSE p \in 1..Len(commitLog) : commitLog[p] = i
  ELSE 0

\* Another cycle committed to cycle i's resource between i's call and its end.
Foreign(i) ==
  \E p \in (cycles[i].startSeq + 1)..cycles[i].endSeq :
     commitLog[p] # i /\ cycles[commitLog[p]].kind = cycles[i].kind

\* The workbook the cycle read was parsed (steps 3 and 4 were reached).
ReadOk(i) == cycles[i].nRead = 1 /\ cycles[i].wb.valid

PreRewriteSteps == {"entry", "getHandle", "query", "request", "read", "locate"}

\* C1: an Update that ends FAILED before the Rewrite step (no handle,
\* permission refused, read failure, no identifier column, no matching row)
\* never invoked createWritable or write, and, unless another cycle wrote to
\* the resource meanwhile, the resource holds the content it held at the call.
C1_FailedBeforeRewriteWritesNothing ==
  \A i \in Ids :
    (/\ cycles[i].op = "Update"
     /\ cycles[i].result \in {"FAILED", "THROWN"}
     /\ cycles[i].failStep \in PreRewriteSteps)
    => /\ cycles[i].nCreateWritable = 0
       /\ cycles[i].nWrite = 0
       /\ cycles[i].nClose = 0
       /\ CommitPos(i) = 0
       /\ (~Foreign(i) => cycles[i].after = cycles[i].before)

\* C1 witness: an Update ended with "not found" on a header-only sheet or a
\* sheet without the row, and the resource is as before.
C1_Witness ==
  \E i \in Ids :
    /\ cycles[i].op = "Update" /\ cycles[i].result = "FAILED"
    /\ cycles[i].alert = "RowNotFound" /\ cycles[i].midToFind = vM999
    /\ cycles[i].after = cycles[i].before

\* C2: a failure never partially applies.  Every change of a resource is the
\* close of one cycle's writable and puts the complete workbook that cycle
\* planned in place of the old one; the resource is a complete workbook in
\* every state, and a cycle that failed during Rewrite left it as it was.
C2_CommitStep ==
  \A k \in Kinds :
    file'[k] # file[k] =>
      \E i \in Ids :
        /\ cycles[i].kind = k /\ cycles[i].pc = "close"
        /\ cycles'[i].result = "SUCCESS"
        /\ file'[k] = PlanOf(cycles[i], cycles[i].wb).out
        /\ file'[k].valid

C2_NeverPartial ==
  /\ [](\A k \in Kinds : file[k].valid)
  /\ [](\A i \in Ids :
         (cycles[i].result = "FAILED" /\ ~Foreign(i)) => cycles[i].after = cycles[i].before)
  /\ [][C2_CommitStep]_vars

\* C2 witness: a write failed part way (the swap file is torn) and the
\* resource still holds the workbook it held before.
C2_Witness ==
  \E i \in Ids :
    /\ cycles[i].result = "FAILED" /\ cycles[i].failStep = "write"
    /\ cycles[i].swap = "torn"
    /\ file[cycles[i].kind] = cycles[i].before /\ file[cycles[i].kind].valid

\* The fields of a patch that carry a value and resolve to a column.
Resolvable(columns, updatedData) ==
  {j \in 1..Len(updatedData) :
     updatedData[j][2] # NULL /\ TargetCol(columns, updatedData[j][1]) # NULL}

\* C3: after a successful Update the located row holds the patch value under
\* every column a patch field resolves to; every other cell of that row and
\* every other row of the sheet are as the cycle read them.
C3_UpdateFrame ==
  \A i \in Ids :
    (cycles[i].op = "Update" /\ cycles[i].result = "SUCCESS") =>
      LET c       == cycles[i]
          old     == sheet_to_json(c.wb.Sheets[c.sheetName])
          new     == sheet_to_json(c.after.Sheets[c.sheetName])
          columns == c.wb.Sheets[c.sheetName].header
          res     == Resolvable(columns, c.updatedData)
      IN /\ Len(new) = Len(old)
         /\ c.rowIndex \in 1..Len(old)
         /\ \A r \in 1..Len(old) : r # c.rowIndex => new[r] = old[r]
         /\ Keys(new[c.rowIndex]) = columns
         /\ \A j \in res :
              Get(new[c.rowIndex], TargetCol(columns, c.updatedData[j][1])) = c.updatedData[j][2]
         /\ \A col \in Range(columns) :
              (\A j \in res : TargetCol(columns, c.updatedData[j][1]) # col)
                => Get(new[c.rowIndex], col) = Get(old[c.rowIndex], col)

\* C3 witness: a successful Update changed one cell of row M100 of a sheet
\* with three rows.
C3_Witness ==
  \E i \in Ids :
    /\ cycles[i].op = "Update" /\ cycles[i].result = "SUCCESS"
    /\ cycles[i].wb = WbHold /\ cycles[i].rowIndex = 1
    /\ cycles[i].after # cycles[i].wb
    /\ Get(sheet_to_json(cycles[i].after.Sheets[sHold])[1], sStatus) = vClosed

\* C4: at most one update cycle per resource handle is in flight: no two
\* cycles on the same handle have both read the resource while neither has
\* finished (a second cycle waits with its Read until the first is done).
C4_OneCycleInFlight ==
  \A i, j \in Ids :
    (i # j /\ cycles[i].kind = cycles[j].kind /\ InFlight(i) /\ InFlight(j))
      => ~(cycles[i].nRead = 1 /\ cycles[j].nRead = 1)

\* Cycles i and j overlapped on one resource and i closed first: both read
\* the same version of the resource (no commit to it between their reads) and
\* j had read before i closed.
Overlapped(i, j) ==
  /\ i # j /\ cycles[i].kind = cycles[j].kind
  /\ cycles[i].result = "SUCCESS" /\ cycles[j].result = "SUCCESS"
  /\ CommitPos(i) < CommitPos(j)
  /\ cycles[j].readSeq < CommitPos(i)
  /\ \A p \in 1..Len(commitLog) :
       (/\ cycles[commitLog[p]].kind = cycles[i].kind
        /\ (p > cycles[i].readSeq \/ p > cycles[j].readSeq))
       => (p > cycles[i].readSeq /\ p > cycles[j].readSeq)

\* No cycle closed on j's resource after j did.
LastWriter(j) ==
  \A p \in 1..Len(commitLog) :
    p > CommitPos(j) => cycles[commitLog[p]].kind # cycles[j].kind

\* C5: when two cycles on a resource both read before either rewrites, both
\* report SUCCESS and what the later one leaves is its own change applied to
\* the content both read: the earlier writer's output is replaced whole
\* (last writer wins).
C5_LastWriterWins ==
  \A i, j \in Ids :
    Overlapped(i, j) =>
      /\ cycles[j].after = PlanOf(cycles[j], cycles[i].wb).out
      /\ (LastWriter(j) => file[cycles[j].kind] = cycles[j].after)

\* C5 witness: an Update patched row M100 and closed, an Append that had read
\* the same content closed after it, and the resource shows the appended
\* rows with row M100 unpatched.
C5_Witness ==
  \E i, j \in Ids :
    /\ Overlapped(i, j) /\ LastWriter(j)
    /\ cycles[i].op = "Update" /\ cycles[j].op = "Append"
    /\ cycles[i].wb = WbHold /\ cycles[i].after # cycles[i].wb
    /\ file["HOLD"] # PlanOf(cycles[j], cycles[i].after).out
    /\ sheet_to_json(file["HOLD"].Sheets[sHold])[1] = sheet_to_json(WbHold.Sheets[sHold])[1]
    /\ Len(file["HOLD"].Sheets[sHold].cells) = 5

\* The sheets of wb whose normalized name contains the kind's token.
Matching(wb, kind) ==
  {p \in 1..Len(wb.SheetNames) : includes(normalizeKey(wb.SheetNames[p]), KindToken(kind))}

C7_LocateErrors ==
  \A i \in Ids :
    (cycles[i].op = "Update" /\ ReadOk(i)) =>
      LET c      == cycles[i]
          ws     == c.wb.Sheets[c.sheetName]
          midCol == findMidColumn(ws.header)
          rows   == sheet_to_json(ws)
          found  == midCol # NULL /\
                    \E r \in 1..Len(rows) :
                       normalizeKey(Get(rows[r], midCol)) = normalizeKey(c.midToFind)
      IN /\ (c.alert = "ColumnNotFound") <=> (midCol = NULL)
         /\ (c.alert = "RowNotFound") <=> (midCol # NULL /\ ~found)

\* The frame of a rewrite: next to the workbook wb a cycle read, content has
\* the same sheets at the same positions (at most one more at the end, the
\* target) and every sheet but the target unchanged.
OnlyTargetReplaced(wb, content, sheetName) ==
  /\ content.valid
  /\ \/ content.SheetNames = wb.SheetNames
     \/ sheetName \notin Range(wb.SheetNames) /\ content.SheetNames = Append(wb.SheetNames, sheetName)
  /\ \A n \in Range(wb.SheetNames) : n # sheetName => content.Sheets[n] = wb.Sheets[n]

\* C8: Update and Append replace only the target sheet and write the whole
\* workbook back to the handle it was read from: every change of a resource
\* is the close of a cycle on that resource, and next to what that cycle read
\* every other sheet keeps its name, position and content.
C8_OnlyTargetSheet ==
  [][\A k \in Kinds :
       file'[k] # file[k] =>
         \E i \in Ids :
           /\ cycles[i].pc = "close" /\ cycles'[i].result = "SUCCESS"
           /\ cycles[i].kind = k
           /\ OnlyTargetReplaced(cycles[i].wb, file'[k], cycles[i].sheetName)
           /\ \A k2 \in Kinds \ {k} : file'[k2] = file[k2]]_vars

\* C8 witness: a cycle rewrote the second sheet of a two-sheet workbook, and
\* another appended to RM_Entries, the third of three sheets.
C8_Witness ==
  /\ \E i \in Ids :
       /\ cycles[i].result = "SUCCESS" /\ cycles[i].wb = WbSecond
       /\ cycles[i].sheetName = sHoldList /\ cycles[i].after # cycles[i].wb
       /\ cycles[i].after.Sheets[sSummary] = WbSecond.Sheets[sSummary]
  /\ \E j \in Ids :
       /\ cycles[j].result = "SUCCESS" /\ cycles[j].kind = "RM"
       /\ cycles[j].sheetName = sRM_Entries /\ cycles[j].after # cycles[j].wb

\* C9: the resource is read only after read-write permission was granted;
\* requestPermission runs at most once per cycle and only after
\* queryPermission answered other than granted; a refused re-request ends
\* the cycle FAILED with PermissionDenied, nothing read or written, and
\* nothing asked again.
C9_PermissionBeforeRead ==
  \A i \in Ids :
    LET c == cycles[i]
    IN /\ c.nQuery <= 1 /\ c.nRequest <= 1
       /\ (c.nRead > 0 => c.queried = "granted" \/ c.requested = "granted")
       /\ (c.nRequest = 1 => c.nQuery = 1 /\ c.queried = "prompt")
       /\ (c.requested = "denied" =>
             /\ c.pc = "done" /\ c.result = "FAILED" /\ c.alert = "PermissionDenied"
             /\ c.nRead = 0 /\ c.nCreateWritable = 0 /\ c.nWrite = 0
             /\ (c.after = c.before \/ Foreign(i)))

\* C9 witness: one cycle was refused and ended; another got the permission
\* on the re-request and read the resource.
C9_Witness ==
  /\ \E i \in Ids : cycles[i].requested = "denied" /\ cycles[i].result = "FAILED"
  /\ \E j \in Ids : cycles[j].requested = "granted" /\ cycles[j].nRead = 1

\* No column of the sheet answers to the form key: none has its name, none
\* its normalized key, none a normalized key among the key's aliases.
NoColumnFor(columns, formKey) ==
  \A col \in Range(columns) :
    /\ col # formKey
    /\ normalizeKey(col) # normalizeKey(formKey)
    /\ normalizeKey(col) \notin Range(FieldMapping(formKey))

\* The patch fields that carry a value and resolve to no column.
Unresolved(columns, updatedData) ==
  {j \in 1..Len(updatedData) :
     updatedData[j][2] # NULL /\ NoColumnFor(columns, updatedData[j][1])}

\* C10: a patch field that resolves to no column of the target sheet is
\* skipped: the Update does not fail on it (it goes on to the rewrite), the
\* resolvable fields are applied, and the sheet written has the columns of
\* the sheet read and no other.
C10_UnresolvedFieldSkipped ==
  \A i \in Ids :
    LET c == cycles[i]
    IN (c.op = "Update" /\ ReadOk(i) /\ c.rowIndex > 0
        /\ Unresolved(c.wb.Sheets[c.sheetName].header, c.updatedData) # {}) =>
         LET columns == c.wb.Sheets[c.sheetName].header
             new     == sheet_to_json(c.out.Sheets[c.sheetName])
         IN /\ c.alert \in {"", "Caught"}
            /\ c.failStep \notin PreRewriteSteps
            /\ c.out.Sheets[c.sheetName].header = columns
            /\ \A j \in Resolvable(columns, c.updatedData) :
                 Get(new[c.rowIndex], TargetCol(columns, c.updatedData[j][1]))
                   = c.updatedData[j][2]
            /\ (c.result = "SUCCESS" => c.after.Sheets[c.sheetName].header = columns)

\* C10 witness: a successful Update whose form had a field with a column
\* (Held By) and a field without one (added By).
C10_Witness ==
  \E i \in Ids :
    /\ cycles[i].op = "Update" /\ cycles[i].result = "SUCCESS"
    /\ cycles[i].wb = WbHold
    /\ Unresolved(WbHold.Sheets[sHold].header, cycles[i].updatedData) # {}
    /\ Resolvable(WbHold.Sheets[sHold].header, cycles[i].updatedData) # {}
    /\ cycles[i].after # cycles[i].wb

\* C11: every Update request reaches one terminal state, success or error,
\* also when the handle store's get request fails; the terminal state is
\* final, and from then on isUpdating is false unless a later Update runs.
C11_TerminalStep ==
  \A i \in Ids :
    /\ (cycles[i].pc = "done" => cycles'[i] = cycles[i])
    /\ (cycles[i].op = "Update" /\ cycles[i].pc # "done" /\ cycles'[i].pc = "done")
         => /\ cycles'[i].result \in {"SUCCESS", "FAILED", "THROWN"}
            /\ updateMsg' = (IF cycles'[i].result = "SUCCESS" THEN "success" ELSE "error")
            /\ isUpdating' = FALSE

C11_UpdateTerminates ==
  /\ \A i \in 1..MaxCycles :
        [](i \in Ids => <>(i \in Ids /\ cycles[i].pc = "done"))
  /\ [](isUpdating <=> \E i \in Ids : cycles[i].op = "Update" /\ cycles[i].pc # "done")
  /\ [][C11_TerminalStep]_vars

\* C11 witness: the handle store's get request failed, the Update is over
\* with the error message and the flag is down.
C11_Witness ==
  \E i \in Ids :
    /\ cycles[i].op = "Update" /\ cycles[i].pc = "done"
    /\ cycles[i].result = "THROWN" /\ cycles[i].failStep = "getHandle"
    /\ updateMsg = "error" /\ ~isUpdating

\* C12: two FAILED outcomes of different error kinds are distinguishable from
\* the value returned to the caller.
C12_FailuresDistinguishable ==
  \A i, j \in Ids :
    (/\ cycles[i].result = "FAILED" /\ cycles[j].result = "FAILED"
     /\ cycles[i].alert # cycles[j].alert)
    => ReturnValue(cycles[i]) # ReturnValue(cycles[j])

\* The queued records of the kind, in queue order.
QueuedOf(kind) ==
  SelectSeq(manualEntries, LAMBDA r : Has(r, s_type) /\ Get(r, s_type) = KindStr(kind))

\* C13: the close of a successful Append leaves in the target sheet the data
\* rows the cycle read, unchanged and in order, followed by exactly one row
\* per queued record of the kind in queue order; the columns are the header
\* the sheet had, or with zero data rows the first record's field names.
C13_AppendStep ==
  \A i \in Ids :
    (cycles[i].op = "Append" /\ cycles[i].pc = "close" /\ cycles'[i].result = "SUCCESS")
    => LET c    == cycles[i]
           name == c.sheetName
           old  == IF name \in DOMAIN c.wb.Sheets
                   THEN sheet_to_json(c.wb.Sheets[name]) ELSE <<>>
           ws   == file'[c.kind].Sheets[name]
           new  == sheet_to_json(ws)
           recs == QueuedOf(c.kind)
           n    == Len(recs)
           cols == IF Len(old) > 0 THEN c.wb.Sheets[name].header
                   ELSE SelectSeq(Keys(recs[1]), LAMBDA k : ~StartsWithUnderscore(k))
       IN /\ n > 0
          /\ Len(new) = Len(old) + n
          /\ SubSeq(new, 1, Len(old)) = old
          /\ ws.header = cols
          /\ \A k \in 1..n :
               \A col \in Range(cols) :
                 Has(recs[k], col) => Get(new[Len(old) + k], col) = Get(recs[k], col)

C13_AppendAddsRowsAfter == [][C13_AppendStep]_vars

\* C13 witness: two queued HOLD records were appended after the three rows of
\* the sheet Hold, and two after zero rows of a header-only sheet.
C13_Witness ==
  \E i \in Ids :
    /\ cycles[i].op = "Append" /\ cycles[i].result = "SUCCESS"
    /\ Len(cycles[i].newRecords) = 2
    /\ cycles[i].after = cycles[i].out
    /\ cycles[i].wb = WbHold
    /\ Len(cycles[i].after.Sheets[sHold].cells) = 5

\* C13 witness for the sheet with zero data rows.
C13_WitnessEmptySheet ==
  \E i \in Ids :
    /\ cycles[i].op = "Append" /\ cycles[i].result = "SUCCESS"
    /\ cycles[i].wb = WbHeaderOnly
    /\ cycles[i].after = cycles[i].out
    /\ Len(cycles[i].after.Sheets[sHold].cells) = 2
    /\ cycles[i].after.Sheets[sHold].header[1] = sMerchantID

\* ----------------------------------------------------- search panel claims
\* The loaded table a search result was taken from (its provenance tag).
TableOf(record) ==
  databases[FindIndex(databases,
              {db \in Range(databases) : db.fileName = Get(record, s__sourceFile)})]

\* A search result without its provenance tag
Untagged(record) == SelectSeq(record, LAMBDA kv : kv[1] # s__sourceFile)

\* The workbook a loaded table was read from: one sheet holding its rows.
SourceWorkbook(db) == WB(<<sHold>>, <<json_to_sheet(db.data)>>)

\* The form that selecting the picked row again gives once Update has patched
\* the workbook of its table with the form and the workbook is read again.
Reselected ==
  LET db     == TableOf(picked)
      at     == FindIndex(db.data, {row \in Range(db.data) : row = Untagged(picked)})
      plan   == UpdatePlan(SourceWorkbook(db), "HOLD", mid, formData)
      reread == processWorkbook(plan.out, db.fileName)
  IN [alert |-> plan.alert,
      form  |-> SelectedForm(Tagged(reread.data[at], db.fileName),
                             ConfigFor(reread, activeProfile), activeProfile)]

\* C14: after a record is selected, submitting the form through Update and
\* selecting the row again from the file read back gives the submitted form,
\* and every field the selection read from a column is written by Update to
\* that column.
C14_RoundTrip ==
  (picked # <<>> /\ Reselected.alert = "") =>
    /\ Reselected.form = formData
    /\ \A i \in 1..Len(ALL_FORM_FIELDS) :
         LET field == ALL_FORM_FIELDS[i]
             read  == FieldRead(picked, Get(dbConfigs, Get(picked, s__sourceFile)), field)
         IN (read.col # NULL /\ Has(formData, field) /\ Get(formData, field) # NULL)
              => TargetCol(TableOf(picked).columns, field) = read.col

\* C14, the values alone: the form selected again equals the submitted form.
C14_RoundTripValues ==
  (picked # <<>> /\ Reselected.alert = "") => Reselected.form = formData

\* query.toLowerCase() contains 'hold', stated on the characters
ContainsHold(name) ==
  \E i \in 1..Len(name) :
    /\ i + 3 <= Len(name)
    /\ name[i] \in {"h", "H"} /\ name[i + 1] \in {"o", "O"}
    /\ name[i + 2] \in {"l", "L"} /\ name[i + 3] \in {"d", "D"}

\* The suggestions of both inputs
AllSuggestions == midSuggestions \o nameSuggestions

\* C15: every record search returned is a row of a loaded table whose name
\* contains 'hold' in any letter case, tagged with that table's name.
C15_ResultsFromHoldTables ==
  \A k \in 1..Len(AllSuggestions) :
    LET record == AllSuggestions[k]
    IN /\ Has(record, s__sourceFile)
       /\ ContainsHold(Get(record, s__sourceFile))
       /\ \E db \in Range(databases) :
            /\ db.fileName = Get(record, s__sourceFile)
            /\ Untagged(record) \in Range(db.data)

\* C15 witness: RM_Master.xlsx holds a row whose identifier matches the
\* query, Hold tables of both letter cases are loaded, and search returned
\* records.
C15_Witness ==
  /\ mid = qM1
  /\ Len(midSuggestions) > 0
  /\ \E db \in Range(databases) :
       /\ db.fileName = sRMMaster
       /\ \E row \in Range(db.data) :
            includes(normalizeKey(Get(row, sOrgMID)), normalizeKey(mid))
  /\ \E r \in Range(midSuggestions) : Get(r, s__sourceFile) = sHoldFeb
  /\ \E r \in Range(midSuggestions) : Get(r, s__sourceFile) = sHoldJan

\* The column a search of the given type filters table db by ('' when the
\* table has no config or no such column).
SearchCol(db, type) ==
  IF ~Has(dbConfigs, db.fileName) THEN EMPTY
  ELSE IF type = "mid" THEN Get(dbConfigs, db.fileName).midCol
  ELSE Get(dbConfigs, db.fileName).nameCol

\* The Hold tables with a search column, in load order
Searchable(type) ==
  SelectSeq(databases, LAMBDA db : ContainsHold(db.fileName) /\ SearchCol(db, type) # EMPTY)

\* The rows of table db matching the query, in row order, tagged
MatchesIn(db, query, type) ==
  LET hit(row) == includes(normalizeKey(CellText(row, SearchCol(db, type))),
                           normalizeKey(query))
      rows     == SelectSeq(db.data, hit)
  IN [j \in 1..Len(rows) |-> Tagged(rows[j], db.fileName)]

\* All matches of the first n searchable tables, in table then row order
RECURSIVE MatchesUpTo(_, _, _)
MatchesUpTo(n, query, type) ==
  IF n = 0 THEN <<>>
  ELSE MatchesUpTo(n - 1, query, type) \o MatchesIn(Searchable(type)[n], query, type)

\* What the claim asks of a search for query: the first ResultCap matches,
\* and exactly the tables before which fewer than ResultCap were collected.
CappedSearch(query, type) ==
  LET n   == Len(Searchable(type))
      all == MatchesUpTo(n, query, type)
      idx == SelectSeq([j \in 1..n |-> j],
                       LAMBDA j : Len(MatchesUpTo(j - 1, query, type)) < ResultCap)
  IN [results |-> IF Len(all) <= ResultCap THEN all ELSE SubSeq(all, 1, ResultCap),
      scanned |-> [j \in 1..Len(idx) |-> Searchable(type)[idx[j]].fileName]]

\* A step that searched by MID (the MID input changed to a query that is not
\* blank) or by name (the form's name changed)
C16_SearchStep ==
  /\ (mid' # mid /\ picked' = <<>> /\ \E i \in 1..Len(mid') : mid'[i] \notin WhiteSpace)
       => /\ midSuggestions' = CappedSearch(mid', "mid").results
          /\ scanned' = CappedSearch(mid', "mid").scanned
  /\ (formData' # formData /\ mid' = mid /\ picked' = <<>> /\ databases' = databases
        /\ Has(formData', sMerchantName)
        /\ \E i \in 1..Len(Get(formData', sMerchantName)) :
             Get(formData', sMerchantName)[i] \notin WhiteSpace)
       => /\ nameSuggestions' = CappedSearch(Get(formData', sMerchantName), "name").results
          /\ scanned' = CappedSearch(Get(formData', sMerchantName), "name").scanned

\* C16: search returns at most 20 records: the first 20 matches in table
\* order and row order (all of them if fewer), and no table is scanned once
\* 20 matches are collected.
C16_FirstTwentyInOrder ==
  /\ [](Len(midSuggestions) <= 20 /\ Len(nameSuggestions) <= 20)
  /\ [][C16_SearchStep]_vars

\* C16 witness: three Hold tables of MaxRows matching rows each; the search
\* returned 20 records, the last eight from the second table, and the third
\* table was not scanned.
C16_Witness ==
  /\ Len(databases) = 3
  /\ \A i \in 1..3 : Len(MatchesIn(databases[i], mid, "mid")) = MaxRows
  /\ Len(midSuggestions) = 20
  /\ Get(midSuggestions[20], s__sourceFile) = sHoldFeb
  /\ Get(midSuggestions[20], sRef) = RowRef(20 - MaxRows)
  /\ scanned = <<sHoldJan, sHoldFeb>>

\* What any step may do to the loaded tables: nothing, or (a manual-entry
\* save) add one row at the end of System_Manual_Entry.xlsx, creating that
\* table after the others when it is not loaded.
C17_TablesStep ==
  /\ Len(databases') >= Len(databases)
  /\ \A i \in 1..Len(databases) :
       \/ databases'[i] = databases[i]
       \/ /\ databases[i].fileName = sManualFile
          /\ databases'[i].fileName = sManualFile
          /\ Len(databases'[i].data) = Len(databases[i].data) + 1
          /\ SubSeq(databases'[i].data, 1, Len(databases[i].data)) = databases[i].data
  /\ \A i \in (Len(databases) + 1)..Len(databases') :
       databases'[i].fileName = sManualFile /\ Len(databases'[i].data) = 1
  /\ (manualEntries' = manualEntries) => databases' = databases

C18_BlankStep ==
  (mid' # mid /\ \A i \in 1..Len(mid') : mid'[i] \in WhiteSpace)
    => /\ midSuggestions' = <<>>
       /\ scanned' = <<>>
       /\ databases' = databases

\* C18: a search with an empty or whitespace-only query returns the empty
\* sequence and scans no table.
C18_BlankQueryReturnsEmpty == [][C18_BlankStep]_vars

\* C18 witness: the whitespace-only query was searched with Hold tables
\* loaded whose every identifier contains the query's normalized key ('').
C18_Witness ==
  /\ mid = qBlank
  /\ Len(mid) > 0
  /\ \E db \in Range(databases) : ContainsHold(db.fileName) /\ Len(db.data) > 0
  /\ midSuggestions = <<>>
  /\ scanned = <<>>
  /\ picked = <<>>
  /\ formData = <<>>

\* C18 witness for the empty query typed over an earlier query.
C18_WitnessEmpty ==
  /\ mid = EMPTY
  /\ Len(databases) = 3
  /\ scanned = <<>>
  /\ Len(nameSuggestions) > 0

\* The column the four steps choose for a field, NULL when none: the
\* override if it is one of the columns, a column equal to the label, a
\* column whose normalized key equals the normalized label, a column whose
\* normalized key is in the field's alias set.
FirstHitColumn(columns, field, overrides) ==
  LET norm  == FindIndex(columns,
                 {c \in Range(columns) : normalizeKey(c) = normalizeKey(field)})
      alias == FindIndex(columns,
                 {c \in Range(columns) : normalizeKey(c) \in Range(FieldAliases(field))})
  IN IF Has(overrides, field) /\ Get(overrides, field) \in Range(columns)
       THEN Get(overrides, field)
     ELSE IF field \in Range(columns) THEN field
     ELSE IF norm # 0 THEN columns[norm]
     ELSE IF alias # 0 THEN columns[alias]
     ELSE NULL

\* C19: the column a selected record's field is read from is the one the
\* first of the four steps that hits gives, whatever the overrides stored
\* for the table ('Merchant Name', which also has the name column default,
\* is left to C20).
C19_ColumnByFirstHit ==
  picked # <<>> =>
    \A i \in 1..Len(ALL_FORM_FIELDS) :
      LET field == ALL_FORM_FIELDS[i]
          db    == TableOf(picked)
      IN field # sMerchantName =>
           FieldRead(picked, Get(dbConfigs, db.fileName), field).col
             = FirstHitColumn(db.columns, field, ProfileMappings(activeProfile, db.fileName))

\* C19 without overrides: with no mapping stored for the table the four
\* steps do give the column read.
C19_NoOverrideFirstHit ==
  (picked # <<>> /\ ProfileMappings(activeProfile, Get(picked, s__sourceFile)) = <<>>) =>
    \A i \in 1..Len(ALL_FORM_FIELDS) :
      LET field == ALL_FORM_FIELDS[i]
          db    == TableOf(picked)
      IN field # sMerchantName =>
           FieldRead(picked, Get(dbConfigs, db.fileName), field).col
             = FirstHitColumn(db.columns, field, <<>>)

\* The identifier and name columns of every loaded table's config: the first
\* column whose normalized key is a candidate, else the first (identifier) or
\* second (name) column of the table.
C20_PositionalDefaults ==
  \A db \in Range(databases) :
    /\ Has(dbConfigs, db.fileName)
    /\ LET config == Get(dbConfigs, db.fileName)
       IN /\ (\A c \in Range(db.columns) : normalizeKey(c) \notin MidCandidateSet)
               => (Len(db.columns) >= 1 /\ config.midCol = db.columns[1])
          /\ (\A c \in Range(db.columns) : normalizeKey(c) \notin NameCandidateSet)
               => (Len(db.columns) >= 2 /\ config.nameCol = db.columns[2])

\* After a selection: the MID input and the name are read from the config's
\* identifier and name columns, and a field none of whose steps gives a
\* column is absent from the form unless the profile's default filled it.
C20_UnmatchedAbsent ==
  picked # <<>> =>
    LET db     == TableOf(picked)
        config == Get(dbConfigs, db.fileName)
    IN /\ mid = Get(picked, config.midCol)
       /\ (FirstHitColumn(db.columns, sMerchantName, ProfileMappings(activeProfile, db.fileName)) = NULL)
            => Get(formData, sMerchantName) = Get(picked, config.nameCol)
       /\ \A i \in 1..Len(ALL_FORM_FIELDS) :
            LET field == ALL_FORM_FIELDS[i]
            IN (field # sMerchantName
                /\ FirstHitColumn(db.columns, field,
                                  ProfileMappings(activeProfile, db.fileName)) = NULL)
                 => \/ ~Has(formData, field)
                    \/ /\ field = sHeldBy
                       /\ activeProfile.defaultHeldBy # EMPTY
                       /\ Get(formData, field) = activeProfile.defaultHeldBy
                    \/ /\ field = sPOSECOM
                       /\ activeProfile.defaultPosEcom # EMPTY
                       /\ Get(formData, field) = activeProfile.defaultPosEcom

\* C20: without an identifier (name) candidate among its columns a table is
\* searched by its first (second) column; every other field without a
\* matching column is absent from the form, never read by position.
C20_DefaultsByPosition == C20_PositionalDefaults /\ C20_UnmatchedAbsent

\* C20 witness: HOLD_Feb.xlsx (columns Ref, Notes, Status) was searched by
\* its first column, and the selected row gave the MID input from Ref and the
\* name from Notes, with 'Current Status' absent from the form.
C20_Witness ==
  /\ picked # <<>>
  /\ Get(picked, s__sourceFile) = sHoldFeb
  /\ TableOf(picked).columns = <<sRef, sNotes, sStatus>>
  /\ Get(dbConfigs, sHoldFeb).midCol = sRef
  /\ Get(dbConfigs, sHoldFeb).nameCol = sNotes
  /\ mid = vM100
  /\ Get(formData, sMerchantName) = vAcme
  /\ ~Has(formData, sCurrentStatus)
  /\ ~Has(formData, sMerchantID)

\* The rows of the other loaded tables that match the picked record: for a
\* table whose identifier column resolves, the rows whose normalized
\* identifier equals the normalized MID of the selection.
SecondaryRows(db) ==
  IF db.fileName = Get(picked, s__sourceFile) \/ findMidColumn(db.columns) = NULL THEN {}
  ELSE {row \in Range(db.data) :
          normalizeKey(CellText(row, findMidColumn(db.columns))) = normalizeKey(mid)}

\* Some matching row of another loaded table has a non-empty value under the
\* column the four steps give for the field.
SecondaryHas(field) ==
  \E db \in Range(databases) :
    LET col == FirstHitColumn(db.columns, field, ProfileMappings(activeProfile, db.fileName))
    IN col # NULL /\ \E row \in SecondaryRows(db) : CellText(row, col) # EMPTY

\* C21: after a selection (no profile active, so no override is in play), a
\* field that a matching row of another loaded table has a value for has a
\* non-empty value in the form.
C21_SecondaryFills ==
  (picked # <<>> /\ activeProfile = NoProfile) =>
    \A i \in 1..Len(ALL_FORM_FIELDS) :
      SecondaryHas(ALL_FORM_FIELDS[i])
        => (Has(formData, ALL_FORM_FIELDS[i])
            /\ Get(formData, ALL_FORM_FIELDS[i]) \notin {NULL, EMPTY})

\* ----------------------------------------------------- manual entry claims
\* The normalized identifier of a row: of the cell under the first key that
\* is an identifier candidate.
RowIdentifier(row) == normalizeKey(CellString(row, findMidColumn(Keys(row))))

\* The corroborating sources the claim names for a suggestion: the
\* suggestion, then per other loaded table with an identifier column, in load
\* order, its first row of the suggestion's normalized identifier.
SourcesOf(record, dbs) ==
  LET identifier == RowIdentifier(record)
      other == SelectSeq(dbs,
                 LAMBDA db : /\ db.fileName # Get(record, s__sourceFile)
                             /\ findMidColumn(db.columns) # NULL
                             /\ \E row \in Range(db.data) :
                                  RowIdentifier(row) = identifier)
      first(db) == db.data[CHOOSE i \in 1..Len(db.data) :
                     /\ RowIdentifier(db.data[i]) = identifier
                     /\ \A j \in 1..(i - 1) : RowIdentifier(db.data[j]) # identifier]
  IN <<record>> \o [n \in 1..Len(other) |-> first(other[n])]

CorroboratingSources == SourcesOf(chosen, databases)

\* The non-blank values a source has under the keys (by the key itself or by
\* a key of the same normalized key)
ValuesUnder(record, keys) ==
  LET normalized == {normalizeKey(k) : k \in Range(keys)}
  IN {record[i][2] : i \in {i \in 1..Len(record) :
        /\ \E c \in 1..Len(record[i][2]) : record[i][2][c] \notin WhiteSpace
        /\ normalizeKey(record[i][1]) \in normalized}}

\* val is what the earliest of the sources with a value under the keys
\* supplies; when no source has one, val is the fallback.
FromEarliestSource(srcs, val, keys, fallback) ==
  LET has == SelectSeq([n \in 1..Len(srcs) |-> ValuesUnder(srcs[n], keys)],
                       LAMBDA values : values # {})
  IN IF has = <<>> THEN val = fallback ELSE val \in has[1]

\* A step that fills the Hold form from a clicked suggestion
C22_SelectStep ==
  (chosen = <<>> /\ chosen' # <<>>) =>
    LET srcs == SourcesOf(chosen', databases)
    IN /\ AllMatches(databases, chosen') = srcs
       /\ FromEarliestSource(srcs, holdForm'.mid, <<kMid, kMerchantid, kOrgmid>>, holdForm.mid)
       /\ FromEarliestSource(srcs, holdForm'.name, <<kName, kMerchantname>>, holdForm.name)
       /\ FromEarliestSource(srcs, holdForm'.currentStatus, <<kCurrentStatus, kStatus>>, vActive)
       /\ FromEarliestSource(srcs, holdForm'.heldBy, <<kHeldBy>>, activeProfile.defaultHeldBy)

\* C22: the Hold form filled from a suggestion takes each field from the
\* earliest of the corroborating sources that has a value for it: the
\* suggestion, then the first matching row of each other table with an
\* identifier column, in load order.
C22_EarliestSourceWins == [][C22_SelectStep]_vars

\* C22 witness: the RM_Master.xlsx suggestion M100 was clicked with
\* Hold_Jan.xlsx loaded, whose first and third rows have the identifier m100;
\* status and held-by come from the first.
C22_Witness ==
  /\ chosen # <<>>
  /\ Get(chosen, s__sourceFile) = sRMMaster
  /\ Len(CorroboratingSources) = 2
  /\ Get(CorroboratingSources[2], sMID) = vM100
  /\ \E db \in Range(databases) :
       db.fileName = sHoldJan /\ Len(db.data) = 3 /\ RowIdentifier(db.data[3]) = RowIdentifier(chosen)
  /\ holdForm.currentStatus = vOpen
  /\ holdForm.heldBy = vA

\* C22 witness for the source table: the third Hold_Jan.xlsx row was clicked,
\* which has no held-by value; the first row of the same table and identifier
\* (held by 'A') is no source.
C22_WitnessSameTable ==
  /\ chosen # <<>>
  /\ Get(chosen, s__sourceFile) = sHoldJan
  /\ Get(chosen, sMID) = vm_100
  /\ holdForm.currentStatus = vClosed
  /\ holdForm.heldBy = EMPTY
  /\ Len(CorroboratingSources) = 2

\* field of the search panel's form is the record's own value when that is
\* not empty, else the active profile's default when there is one, else as
\* the record gave it (absent or empty).
DefaultOnlyWhenEmpty(field, default) ==
  LET read == FieldRead(picked, Get(dbConfigs, Get(picked, s__sourceFile)), field).val
  IN IF read \notin {NULL, EMPTY} THEN Has(formData, field) /\ Get(formData, field) = read
     ELSE IF activeProfile.id # NULL /\ default # EMPTY
       THEN Has(formData, field) /\ Get(formData, field) = default
     ELSE ~Has(formData, field) \/ Get(formData, field) = read

C23_WitnessKept ==
  /\ picked # <<>>
  /\ activeProfile.defaultHeldBy = vOps
  /\ Get(picked, sHeldBy) = vA
  /\ Get(formData, sHeldBy) = vA

\* C23 witness for the Hold form: the default filled held-by for a clicked
\* suggestion none of whose sources has one.
C23_WitnessHoldForm ==
  /\ chosen # <<>>
  /\ activeProfile.defaultHeldBy = vOps
  /\ \A n \in 1..Len(CorroboratingSources) :
       ValuesUnder(CorroboratingSources[n], <<kHeldBy>>) = {}
  /\ holdForm.heldBy = vOps

\* C23 witness without a profile: the empty Held By cell stayed empty.
C23_WitnessNoProfile ==
  /\ picked # <<>>
  /\ activeProfile = NoProfile
  /\ Has(picked, sHeldBy) /\ Get(picked, sHeldBy) = EMPTY
  /\ Get(formData, sHeldBy) = EMPTY

\* C24: a field of the Hold form for which no corroborating source has a
\* value is blank after a suggestion is clicked (held-by may hold the
\* profile default), and a field of the search panel's form outside the
\* record's columns is absent.
C24_NoSentinel ==
  /\ chosen # <<>> =>
       /\ FromEarliestSource(CorroboratingSources, holdForm.currentStatus,
                             <<kCurrentStatus, kStatus>>, EMPTY)
       /\ FromEarliestSource(CorroboratingSources, holdForm.heldBy, <<kHeldBy>>,
                             IF activeProfile.id # NULL THEN activeProfile.defaultHeldBy
                             ELSE EMPTY)
  /\ picked # <<>> =>
       \A i \in 1..Len(ALL_FORM_FIELDS) :
         LET field == ALL_FORM_FIELDS[i]
         IN (field \notin {sMerchantName, sHeldBy, sPOSECOM}
             /\ \A k \in Range(Keys(picked)) : normalizeKey(k) # normalizeKey(field)
             /\ ~Has(Get(dbConfigs, Get(picked, s__sourceFile)).mappings, field))
              => ~Has(formData, field)

\* C24, the search panel alone: a field the selected record has no column
\* for, by name or by mapping, is absent from the form.
C24_SearchPanelNoSentinel ==
  picked # <<>> =>
    \A i \in 1..Len(ALL_FORM_FIELDS) :
      LET field == ALL_FORM_FIELDS[i]
      IN (field \notin {sMerchantName, sHeldBy, sPOSECOM}
          /\ \A k \in Range(Keys(picked)) : normalizeKey(k) # normalizeKey(field)
          /\ ~Has(Get(dbConfigs, Get(picked, s__sourceFile)).mappings, field))
           => ~Has(formData, field)

\* ---------------------------------------------------------- helper claims
\* C25: normalizeKey gives, for every argument (undefined, null and ''
\* included), a key of characters a-z and 0-9 that normalizeKey leaves as it
\* is; undefined, null and '' give the empty key.
C25_NormalizeIdempotentTotal ==
  applied = "normalizeKey" =>
    /\ output \in Seq({"a","b","c","d","e","f","g","h","i","j","k","l","m","n","o","p","q",
                       "r","s","t","u","v","w","x","y","z",
                       "0","1","2","3","4","5","6","7","8","9"})
    /\ normalizeKey(output) = output
    /\ normalizeKey(normalizeKey(input)) = normalizeKey(input)
    /\ (input = NULL \/ input = EMPTY) => output = EMPTY

\* C25 witness: a key with an upper-case letter, a blank and U+0130 was
\* normalized to 'mi'.
C25_Witness ==
  /\ applied = "normalizeKey"
  /\ input = <<"M", " ", "U+0130">>
  /\ output = <<"m", "i">>

\* C25 witness for undefined or null.
C25_WitnessNull ==
  /\ applied = "normalizeKey"
  /\ input = NULL
  /\ output = EMPTY

\* C26: every alias of the static tables is a normalized key: normalizing a
\* header spelled as the alias gives the alias, and such a header is found
\* by the candidate list the alias is in.
C26_AliasesNormalized ==
  (applied = "normalizeKey" /\ input \in StaticAliases) =>
    /\ output = input
    /\ input \in MidCandidateSet => findMidColumn(<<input>>) = input
    /\ input \in NameCandidateSet => findNameColumn(<<input>>) = input

\* The number of days from 1970-01-01 to the calendar date y-mo-d
DaysFromCivil(y, mo, d) ==
  LET yy  == IF mo <= 2 THEN y - 1 ELSE y
      era == yy \div 400
      yoe == yy - era * 400
      doy == ((153 * (IF mo > 2 THEN mo - 3 ELSE mo + 9) + 2) \div 5) + d - 1
      doe == yoe * 365 + (yoe \div 4) - (yoe \div 100) + doy
  IN era * 146097 + doe - 719468

\* s is MM/DD/YYYY and names a calendar date
IsValidMDY(s) ==
  /\ Len(s) = 10
  /\ s[3] = "/" /\ s[6] = "/"
  /\ \A i \in {1, 2, 4, 5, 7, 8, 9, 10} : s[i] \in DigitChars
  /\ ToNumber(SubSeq(s, 1, 2)) \in 1..12
  /\ ToNumber(SubSeq(s, 4, 5)) \in
       1..DaysInMonth(ToNumber(SubSeq(s, 7, 10)), ToNumber(SubSeq(s, 1, 2)))

\* s is MM/DD/YYYY and names the date n days after 1899-12-30
IsSerialDay(s, n) ==
  /\ IsValidMDY(s)
  /\ DaysFromCivil(ToNumber(SubSeq(s, 7, 10)), ToNumber(SubSeq(s, 1, 2)),
                   ToNumber(SubSeq(s, 4, 5)))
       = DaysFromCivil(1899, 12, 30) + n

\* A string of the form Mon/D/YYYY that names a calendar date
IsNamedDate(s) ==
  /\ IsMonDayYear(s)
  /\ toLowerCaseString(SubSeq(s, 1, 3)) \in Range(MonthNames)
  /\ ToNumber(SubSeq(s, 5, Len(s) - 5)) \in
       1..DaysInMonth(ToNumber(SubSeq(s, Len(s) - 3, Len(s))),
                      FindIndex(MonthNames, {toLowerCaseString(SubSeq(s, 1, 3))}))

\* What the claim asks of parseExcelDate for a text or numeral t (trimmed)
NormalizedDate(out, t) ==
  IF IsNumeral(t) /\ ToNumber(t) >= 1 THEN IsSerialDay(out, ToNumber(t))
  ELSE IF IsIsoDate(t)
    THEN out = <<t[6], t[7], "/", t[9], t[10], "/", t[1], t[2], t[3], t[4]>>
  ELSE IF IsNamedDate(t)
    THEN out = PadTwo(FindIndex(MonthNames, {toLowerCaseString(SubSeq(t, 1, 3))}))
                 \o <<"/">> \o PadTwo(ToNumber(SubSeq(t, 5, Len(t) - 5)))
                 \o <<"/">> \o SubSeq(t, Len(t) - 3, Len(t))
  ELSE out = t

\* C27: parseExcelDate turns YYYY-MM-DD into MM/DD/YYYY, Mon/D/YYYY into the
\* padded MM/DD/YYYY, every serial day number n into the MM/DD/YYYY of the
\* date n days after 1899-12-30, and gives any other text back trimmed.
C27_DateNormalization ==
  (applied = "parseExcelDate" /\ input # NULL) => NormalizedDate(output, trim(input))

\* C27 for numbers: every serial day number n of 1 or more comes out as the
\* valid MM/DD/YYYY of the date n days after 1899-12-30.
C27_EverySerialDay ==
  (applied = "parseExcelDate" /\ input # NULL /\ IsNumeral(input)
     /\ ToNumber(input) >= 1)
    => IsSerialDay(output, ToNumber(input))

\* C27 for text: the ISO form and any text that is neither a numeral nor a
\* month-name date.
C27_IsoAndOtherText ==
  (applied = "parseExcelDate" /\ input # NULL
     /\ ~IsNumeral(trim(input)) /\ ~IsMonDayYear(trim(input)))
    => NormalizedDate(output, trim(input))

\* C27 for the serial days parseExcelDate takes as such, in a zone less than
\* 12 hours ahead of UTC: 30001 to 59999.
C27_SerialInRange ==
  [][(applied' = "parseExcelDate" /\ IsNumeral(input)
        /\ ToNumber(input) > 30000 /\ ToNumber(input) < 60000
        /\ output' = parseExcelDateIn(input, HomeEnvironment))
       => IsSerialDay(output', ToNumber(input))]_vars

\* The override made last for the table and field of overridden[i]
IsLatestOverride(i) ==
  \A j \in (i + 1)..Len(overridden) :
    overridden[j].table # overridden[i].table \/ overridden[j].field # overridden[i].field

\* profile holds, under the table's name, the column of every latest override
HoldsOverrides(profile) ==
  \A i \in 1..Len(overridden) :
    IsLatestOverride(i) =>
      /\ Has(profile.mappings, overridden[i].table)
      /\ Has(Get(profile.mappings, overridden[i].table), overridden[i].field)
      /\ Get(Get(profile.mappings, overridden[i].table), overridden[i].field)
           = overridden[i].column

\* C28: once every updateMapping call has completed, the stored profile and
\* the active profile hold the latest override of every table and field
\* that was set, also when calls were made while earlier ones were under way.
C28_OverridesPersisted ==
  (saves = <<>> /\ overridden # <<>>)
    => /\ HoldsOverrides(activeProfile)
       /\ HoldsOverrides(Get(profileStore, activeProfile.id))

\* C28 for overrides made one at a time, each after the one before it has
\* completed.
C28_OneAtATimePersisted ==
  (saves = <<>> /\ overridden # <<>>
     /\ \A i \in 1..Len(overridden) : overridden[i].underWay = 0)
    => /\ HoldsOverrides(activeProfile)
       /\ HoldsOverrides(Get(profileStore, activeProfile.id))

\* Overrides of two tables were made one at a time and have completed.
C28_WitnessOneAtATime ==
  /\ saves = <<>>
  /\ \A i \in 1..Len(overridden) : overridden[i].underWay = 0
  /\ \E i, j \in 1..Len(overridden) : overridden[i].table # overridden[j].table

\* No two tables of the list have the same name
UniqueNames(dbs) ==
  \A i, j \in 1..Len(dbs) : i # j => dbs[i].fileName # dbs[j].fileName

\* C29: after any loads (of one table or of a batch), removals, clear-alls
\* and manual-entry saves no two loaded tables have the same name.
C29_TableNamesUnique == UniqueNames(databases)

\* C29 for every step but the load of a batch that holds a name twice: the
\* names stay unique unless the step appends two tables of one name, both
\* new to the list.
C29_OnlyBatchBreaksUnique ==
  [][(UniqueNames(databases) /\ ~UniqueNames(databases'))
       => /\ Len(databases') >= Len(databases) + 2
          /\ SubSeq(databases', 1, Len(databases)) = databases
          /\ \E i, j \in (Len(databases) + 1)..Len(databases') :
               i # j /\ databases'[i].fileName = databases'[j].fileName]_vars

\* A table whose name is loaded was handed in again and a manual entry was
\* appended to the virtual table, with all names different.
C29_WitnessUnique ==
  /\ Len(databases) = 3
  /\ UniqueNames(databases)
  /\ \E i \in 1..Len(databases) :
       databases[i].fileName = sManualFile /\ databases[i].rowCount = 2

\* Every profile of the import's document is stored and the document's
\* active profile id, if it names one, is the stored one.
ImportedWhole ==
  /\ IsConfigDocument(importRun.document)
  /\ \A i \in 1..Len(importRun.document.profiles) :
       LET q == importRun.document.profiles[i]
       IN /\ q.id # NULL
          /\ Has(profileStore, q.id)
          /\ \/ Get(profileStore, q.id) = q
             \/ \E j \in (i + 1)..Len(importRun.document.profiles) :
                  importRun.document.profiles[j].id = q.id
  /\ importRun.document.activeProfileId # NULL
       => activeProfileId = importRun.document.activeProfileId

\* The profile store and the stored active id are as before the import.
ImportedNothing ==
  /\ profileStore = importRun.storeBefore
  /\ activeProfileId = importRun.idBefore

\* C30 as stated: an import stores every profile and restores the active
\* id, or leaves the store and the stored id as they were; a document that
\* is not JSON or has no profiles array changes nothing and fails.
C30_AllOrNothing ==
  importRun.nth > 0
    => /\ ImportedWhole \/ ImportedNothing
       /\ ~IsConfigDocument(importRun.document)
            => ImportedNothing /\ importRun.result = "failed"

\* C30 for the imports whose transaction commits.
C30_AllOrNothingCommitted ==
  (importRun.nth > 0 /\ importRun.committed)
    => /\ ImportedWhole \/ ImportedNothing
       /\ ~IsConfigDocument(importRun.document)
            => ImportedNothing /\ importRun.result = "failed"

\* C30 for documents that are not JSON or lack a profiles array: nothing
\* changes and the import fails.
C30_InvalidChangesNothing ==
  (importRun.nth > 0 /\ ~IsConfigDocument(importRun.document))
    => ImportedNothing /\ importRun.result = "failed"

\* C30 for documents whose profiles all have an id, when the transaction
\* commits: all of it is imported.
C30_CleanImportWhole ==
  (importRun.nth > 0 /\ importRun.committed /\ IsConfigDocument(importRun.document)
     /\ \A q \in Range(importRun.document.profiles) : q.id # NULL)
    => ImportedWhole /\ importRun.result = "imported"

\* ------------------------------------------------------------- C31 .. C32
\* The MID has no match in a Hold table: searchRecords finds nothing for it.
NoHoldMatch(dbs, configs, val) == searchRecords(dbs, configs, val, "mid").results = <<>>

\* The form holds a value that only a selected record puts there: a field
\* other than the name, which handleNameChange also writes.
HoldsSelectedValues(form) == \E i \in 1..Len(form) : form[i][1] # sMerchantName

PanelHoldConfig == Get(NewConfigs(<<TblHoldJan, TblRMMaster>>, NoProfile), sHoldJan)

\* The form values, the name aside, are those handleSelectRecord takes from
\* a Hold row whose normalized identifier is that of the MID m.
PatchOfMerchant(m, form) ==
  \E i \in 1..Len(TblHoldJan.data) :
    LET record == Tagged(TblHoldJan.data[i], sHoldJan)
        made   == SelectedForm(record, PanelHoldConfig, NoProfile)
    IN /\ normalizeKey(CellText(record, PanelHoldConfig.midCol)) = normalizeKey(m)
       /\ \A k \in 1..Len(form) :
            form[k][1] # sMerchantName
              => Has(made, form[k][1]) /\ Get(made, form[k][1]) = form[k][2]

\* C32: whenever Update is submitted from the panel, the values sent as the
\* patch come from a record whose normalized identifier equals the
\* normalized MID sent as rowKey.
C32_PatchOfSameMerchant ==
  [][Len(cycles') > Len(cycles)
       => LET c == cycles'[Len(cycles')]
          IN HoldsSelectedValues(c.updatedData)
               => PatchOfMerchant(c.midToFind, c.updatedData)]_vars

\* -------------------------------------------------------------------- C37
\* C37: a query that is not blank and whose normalized key is empty returns
\* no records, in the panel's suggestions and in the manual-entry search.
C37_EmptyKeyFindsNothing ==
  (~IsBlankQuery(mid) /\ normalizeKey(mid) = EMPTY)
    => /\ midSuggestions = <<>>
       /\ searchDatabases(databases, mid, "mid") = <<>>

\* C37 for the panel alone.
C37_PanelEmptyKey ==
  (~IsBlankQuery(mid) /\ normalizeKey(mid) = EMPTY) => midSuggestions = <<>>

\* C37 for the manual-entry search alone.
C37_EntryEmptyKey ==
  (~IsBlankQuery(mid) /\ normalizeKey(mid) = EMPTY)
    => searchDatabases(databases, mid, "mid") = <<>>

\* -------------------------------------------------------------------- C33
\* The normalized identifier of row r of the rows read, under the
\* identifier column of their first row.
RowKeyAt(rows, r) == normalizeKey(Get(rows[r], findMidColumn(Keys(rows[1]))))

\* C33, first part: a successful Update changes no row but the first row in
\* sheet order whose normalized identifier equals the normalized rowKey.
C33_FirstMatchingRow ==
  \A i \in Ids :
    (cycles[i].op = "Update" /\ cycles[i].result = "SUCCESS") =>
      LET c   == cycles[i]
          old == sheet_to_json(c.wb.Sheets[c.sheetName])
          new == sheet_to_json(c.after.Sheets[c.sheetName])
      IN /\ c.rowIndex \in 1..Len(old)
         /\ Len(new) = Len(old)
         /\ RowKeyAt(old, c.rowIndex) = normalizeKey(c.midToFind)
         /\ \A r \in 1..Len(old) :
              /\ r < c.rowIndex => RowKeyAt(old, r) # normalizeKey(c.midToFind)
              /\ r # c.rowIndex => new[r] = old[r]

\* C33: a successful Update modifies exactly the first row whose normalized
\* identifier equals the normalized rowKey, and never a row whose
\* identifier normalizes to the empty key; an Update whose rowKey
\* normalizes to the empty key does not succeed and writes nothing.
C33_UpdatesFirstKeyedRow ==
  /\ C33_FirstMatchingRow
  /\ \A i \in Ids :
       cycles[i].op = "Update" =>
         /\ cycles[i].result = "SUCCESS"
              => RowKeyAt(sheet_to_json(cycles[i].wb.Sheets[cycles[i].sheetName]),
                          cycles[i].rowIndex) # EMPTY
         /\ normalizeKey(cycles[i].midToFind) = EMPTY
              => cycles[i].result # "SUCCESS" /\ cycles[i].nWrite = 0

\* A successful Update by the identifier shared by two rows changed the
\* first of them.
C33_WitnessFirstOfTwo ==
  \E i \in Ids :
    /\ cycles[i].op = "Update" /\ cycles[i].result = "SUCCESS"
    /\ cycles[i].wb = WbBlankId /\ cycles[i].midToFind = vM100
    /\ cycles[i].rowIndex = 2
    /\ cycles[i].after # cycles[i].wb

\* -------------------------------------------------------------------- C35
\* The data rows of sheet name of workbook wb, none when it has no such sheet
RowsOf(wb, name) ==
  IF name \in DOMAIN wb.Sheets THEN sheet_to_json(wb.Sheets[name]) ELSE <<>>

\* C35: a successful Append leaves the queue of manual entries as it was, so
\* a second Append that reads what the first wrote takes the same records
\* and the target sheet then holds the rows it had followed by the records'
\* rows twice.
C35_SecondAppendDuplicates ==
  \A i, j \in Ids :
    (/\ i < j
     /\ cycles[i].op = "Append" /\ cycles[i].result = "SUCCESS"
     /\ cycles[j].op = "Append" /\ cycles[j].result = "SUCCESS"
     /\ cycles[j].kind = cycles[i].kind
     /\ cycles[j].wb = cycles[i].after)
    => LET name  == cycles[i].sheetName
           old   == RowsOf(cycles[i].wb, name)
           first == RowsOf(cycles[i].after, name)
           added == SubSeq(first, Len(old) + 1, Len(first))
       IN /\ cycles[i].newRecords = QueuedOf(cycles[i].kind)
          /\ cycles[j].newRecords = cycles[i].newRecords
          /\ Len(added) = Len(cycles[i].newRecords)
          /\ cycles[j].sheetName = name
          /\ RowsOf(cycles[j].after, name) = old \o added \o added

\* Two Appends of the queued HOLD records succeeded one after the other on
\* the workbook with the sheet Hold of three rows.
C35_WitnessTwice ==
  /\ Len(cycles) = 2
  /\ \A i \in {1, 2} : cycles[i].op = "Append" /\ cycles[i].kind = "HOLD"
                       /\ cycles[i].result = "SUCCESS"
  /\ cycles[1].wb = WbHold
  /\ cycles[2].wb = cycles[1].after
  /\ Len(RowsOf(cycles[2].after, cycles[2].sheetName)) = 3 + 2 * Len(QueuedOf("HOLD"))

\* -------------------------------------------------------------------- C36
\* The step is a choice of identifier or name column: the configs change
\* while the tables and the profile stay.
IdColsChosen ==
  dbConfigs' # dbConfigs /\ databases' = databases /\ activeProfile' = activeProfile

\* C36: the identifier column and the name column of a table stay as they
\* are in every step that is no choice of such a column and keeps the table
\* loaded, the load of another table included.
C36_ChoiceStays ==
  [][\A k \in 1..Len(dbConfigs) :
       (/\ ~IdColsChosen
        /\ Has(dbConfigs', dbConfigs[k][1])
        /\ \E db \in Range(databases) : db.fileName = dbConfigs[k][1]
        /\ \E db \in Range(databases') : db.fileName = dbConfigs[k][1])
       => /\ Get(dbConfigs', dbConfigs[k][1]).midCol = dbConfigs[k][2].midCol
          /\ Get(dbConfigs', dbConfigs[k][1]).nameCol = dbConfigs[k][2].nameCol]_vars

\* C36 for the steps that leave the list of tables as it is.
C36_StaysWhileTablesStay ==
  [][\A k \in 1..Len(dbConfigs) :
       (~IdColsChosen /\ databases' = databases /\ Has(dbConfigs', dbConfigs[k][1]))
       => /\ Get(dbConfigs', dbConfigs[k][1]).midCol = dbConfigs[k][2].midCol
          /\ Get(dbConfigs', dbConfigs[k][1]).nameCol = dbConfigs[k][2].nameCol]_vars

\* -------------------------------------------------------------------- C38
\* The virtual manual-entry tables among dbs (none or one)
ManualTables(dbs) == {db \in Range(dbs) : db.fileName = sManualFile}

\* Every table's rowCount is the number of its rows, and every field name
\* of every row of the virtual manual-entry table is among its columns.
C38_CountsAndColumns ==
  /\ \A db \in Range(databases) : db.rowCount = Len(db.data)
  /\ \A db \in ManualTables(databases) :
       \A r \in 1..Len(db.data) :
         \A k \in 1..Len(db.data[r]) : db.data[r][k][1] \in Range(db.columns)

\* While the virtual manual-entry table stays loaded, its columns list keeps
\* every column it had, in the same order.
C38_ColumnsGrow ==
  \A old \in ManualTables(databases), new \in ManualTables(databases') :
    /\ Len(new.columns) >= Len(old.columns)
    /\ SubSeq(new.columns, 1, Len(old.columns)) = old.columns

\* C38: after any sequence of load, remove, clear-all and manual-entry save
\* operations rowCount equals the number of rows of every loaded table, the
\* virtual manual-entry table's columns contain every field name of its
\* rows, and its columns list only grows.
C38_RowCountAndColumns == []C38_CountsAndColumns /\ [][C38_ColumnsGrow]_vars

\* A HOLD record and then an RM record were saved next to a loaded table:
\* the virtual table has two rows and the RM record's columns were added.
C38_WitnessGrown ==
  /\ Len(databases) >= 2
  /\ \E db \in ManualTables(databases) :
       /\ db.rowCount = 2
       /\ Has(db.data[1], sMerchantID) /\ Has(db.data[2], sOrgMID)
       /\ db.columns[1] = sMerchantID
       /\ sOrgMID \in Range(db.columns) /\ sRM \in Range(db.columns)

\* -------------------------------------------------------------------- C39
\* The resolver accepts the cell as identifier or name column.
ResolverAccepts(cell) ==
  normalizeKey(cell) \in MidCandidateSet \cup NameCandidateSet

\* The header row by the resolver's vocabulary, counted from 0: the first
\* of the first 20 rows with a cell the resolver accepts, else 0.
ResolverHeaderRow(rawRows) ==
  LET last == IF Len(rawRows) < 20 THEN Len(rawRows) ELSE 20
      i    == FindIndex(SubSeq(rawRows, 1, last),
                {row \in Range(SubSeq(rawRows, 1, last)) :
                   \E c \in 1..Len(row) : ResolverAccepts(row[c])})
  IN IF i = 0 THEN 0 ELSE i - 1

\* C39: the header row found at ingestion is the first of the first 20 rows
\* with a cell the resolver accepts as identifier or name column, and row 0
\* when there is none.
C39_HeaderByResolver ==
  applied = "headerRow" => output = <<ResolverHeaderRow(input)>>

\* C39 for the sheets in which every cell is accepted by the resolver
\* exactly when its normalized text is a header token.
C39_AgreeOnSharedAliases ==
  (/\ applied = "headerRow"
   /\ \A r \in 1..Len(input) : \A c \in 1..Len(input[r]) :
        ResolverAccepts(input[r][c]) <=> normalizeKey(input[r][c]) \in HeaderTokens)
    => output = <<ResolverHeaderRow(input)>>

\* -------------------------------------------------------------------- C34
\* C34: once no update of the table list is queued and no store operation
\* is under way, the persisted table list equals the table list in memory.
C34_StoreFollowsMemory ==
  (stateQueue = <<>> /\ pendingOps = <<>>) => savedData = databases

====
